---- MODULE Spec2Model ----
(***************************************************************************)
(* Model of the load-test engine of redis-py-test-app.                     *)
(*                                                                         *)
(* TestRunner (src/test_runner.py): start(), stop(), the signal handler,   *)
(* the worker threads and the final summary.  The main thread is a stack   *)
(* of frames: the bottom frame is start(); a signal handler runs on top of *)
(* whatever the main thread was doing (Python runs signal handlers in the  *)
(* main thread, between two bytecodes) and calls stop().                   *)
(*                                                                         *)
(* The parts of a worker's life that do not depend on the runner have      *)
(* their own variables and their own specifications: the worker loop       *)
(* around execute_operation of each workload class (WorkloadSpec), the     *)
(* pacing of the loop (RateSpec), the subscriber threads of a              *)
(* PubSubWorkload (PubSubSpec), _choose_operation (ChooseSpec) and the     *)
(* MetricsCollector (MetricsSpec, ConcurrentSpec).  In a specification     *)
(* every component it does not exercise rests in its idle value.           *)
(***************************************************************************)
EXTENDS Integers, Naturals, Sequences, FiniteSets, TLC

\* ---------------------------------------------------------------- bounds
MaxWorkers == 2
MaxClients == 2
MaxThreadsPerClient == 2
MaxDuration == 1
MaxSignals == 1
MaxOps == 1

\* duration = None (config.py: Optional[int] = None)
None == -1

VARIABLES
    cfg,            \* RunnerConfig: clients, threads_per_client, duration, quiet, target
    frames,         \* main thread: call stack, start() at the bottom, handlers above
    stopEvent,      \* self._stop_event
    redisClients,   \* self._redis_clients (list of handle ids)
    closed,         \* handles on which close() has been called
    workerThreads,  \* self._worker_threads (list of worker ids, spawn order)
    wpc,            \* position of each worker thread
    wclient,        \* shared_client argument of each worker
    wfc,            \* failed_count local of each worker
    startedThreads, \* self._started_threads
    failedThreads,  \* self._failed_threads
    statsStarted,   \* self._stats_thread started
    summaryCount,   \* number of executions of _output_final_summary
    recorded,       \* operations recorded in the metrics aggregator
    elapsed,        \* time.time() - start_time in the duration wait loop
    signals,        \* signals whose handler got past the test of stop()
    raised,         \* an exception propagates out of start()
    waited,         \* start() has slept or joined a thread
    joinLog         \* threads on which stop() attempted join()

runnerVars == <<cfg, frames, stopEvent, redisClients, closed, workerThreads,
                wpc, wclient, wfc, startedThreads, failedThreads, statsStarted,
                summaryCount, recorded, elapsed, signals, raised, waited,
                joinLog>>

\* One worker's loop around one workload instance (src/workloads.py) and the
\* records its execute_operation() adds to the aggregator.
VARIABLES
    wlType,         \* class of the workload built by WorkloadFactory
    wlPc,           \* position of the worker loop / of execute_operation
    wlOps,          \* operation (single) or operations list (batch) of the call
    wlRecords,      \* record_operation calls made by the current call, in order
    wlResult,       \* ops_executed: value returned by execute_operation
    wlRaised,       \* an exception left execute_operation
    wlFailed,       \* the store operation / batch of the last call raised
    wlElapsed,      \* time.time() - start_time measured around the last batch
    wlSlept,        \* sleep of the worker loop since the last call
    wlCount         \* operation_count of the worker loop (MaxCount = or more)

workloadVars == <<wlType, wlPc, wlOps, wlRecords, wlResult, wlRaised, wlFailed,
                  wlElapsed, wlSlept, wlCount>>

\* The pacing of W worker loops on a simulated clock (test_runner.py 79-110).
VARIABLES
    rateCfg,        \* target (ops/sec, global), workers, seconds, unit
    ratePc,         \* position of each worker in its loop
    rateCount,      \* operation_count of each worker
    rateClock       \* time.time() - start_time of each worker, times target

rateVars == <<rateCfg, ratePc, rateCount, rateClock>>

\* One PubSubWorkload instance and its subscriber threads (workloads.py 521-648).
VARIABLES
    psPc,           \* position of the worker thread that owns the workload
    subThread,      \* self._subscriber_thread (0 = None)
    subState,       \* state of every subscriber thread
    subPubsub,      \* self._pubsub: the thread that opened it (0 = None)
    subClosed,      \* the pubsub objects on which close() was called
    subStop         \* self._stop_subscriber

pubsubVars == <<psPc, subThread, subState, subPubsub, subClosed, subStop>>

\* One call of BaseWorkload._choose_operation (workloads.py 103-118).
VARIABLES
    chooseCfg,      \* options "operations", "operation_weights"; config.type
    choosePc,       \* call, returned, raised
    chooseResult    \* the value returned

chooseVars == <<chooseCfg, choosePc, chooseResult>>

\* The MetricsCollector (metrics.py) and the threads that call it.
VARIABLES
    mtMetrics,      \* self._metrics: operation -> OperationMetrics
    mtHistory,      \* the record_operation calls made so far, in order
    mtLock,         \* self._lock: the thread that holds it (0 = free)
    mtPc,           \* position of each calling thread
    mtArg,          \* arguments of each thread's call
    mtTmp,          \* value loaded by each thread for its next store
    mtSnapshot,     \* the counts read by the reader's current call
    mtExported      \* record_operation calls that reached the telemetry export

metricsVars == <<mtMetrics, mtHistory, mtLock, mtPc, mtArg, mtTmp, mtSnapshot,
                 mtExported>>

\* One call of MetricsCollector.get_operation_stats (metrics.py).
VARIABLES
    opLatencies,    \* metrics.latencies: the latency window of the operation
    statsPc,        \* "idle" before the call, "done" after it
    opStats         \* the dictionary the call returned

statsVars == <<opLatencies, statsPc, opStats>>

\* One call of a RedisClient facade method (redis_client.py).
VARIABLES
    fcPc,           \* "idle" before the call, then "returned" or "raised"
    fcCall,         \* the method called, what the store did, the time it took
    fcRecords,      \* the record_operation calls the method made, in order
    fcRaised        \* the exception that reached the caller ("none": none)

facadeVars == <<fcPc, fcCall, fcRecords, fcRaised>>

\* Calls of _generate_key on one workload instance (workloads.py).
VARIABLES
    keyCfg,         \* the options keyRange and keyPrefix
    keyCounter,     \* self._key_counter
    keyLock,        \* self._key_lock: the thread that holds it (0 = free)
    keyPc,          \* position of each calling thread
    keyArg,         \* the operation argument of each thread's call
    keyId,          \* key_id of each thread's call
    keys            \* the keys returned so far, in order of return

keyVars == <<keyCfg, keyCounter, keyLock, keyPc, keyArg, keyId, keys>>

\* The process-wide value pool _VALUE_CACHE (workloads.py) and its users.
VARIABLES
    valueCache,     \* _VALUE_CACHE: its length and the sizes of its entries
    cacheCfg,       \* the workload options of the runner that called start()
    cachePc,        \* start(): "created", "initialized", "failed"
    cachePopulated, \* how many calls have appended entries to the pool
    cacheWorkers,   \* worker threads started by start()
    cacheIndex      \* the last index computed by _generate_value (None: none
                    \* yet), or that the computation raised

cacheVars == <<valueCache, cacheCfg, cachePc, cachePopulated, cacheWorkers,
               cacheIndex>>

\* The MetricsCollector seen through all its operations (metrics.py).
VARIABLES
    colEntries,     \* self._metrics: a defaultdict, operation -> OperationMetrics
    colRecorded,    \* the operations passed to record_operation so far
    colLastReset,   \* self._last_reset_time
    colCall         \* the method of the collector that was called last

collectorVars == <<colEntries, colRecorded, colLastReset, colCall>>

\* WorkloadFactory.create_workload and the first call of the strategy it
\* returns (workloads.py 651-679).
VARIABLES
    factoryCfg,     \* [type, usePipeline, operations]: the WorkloadConfig
    factoryPc,      \* "idle", "configured", "created", "chosen", "executed"
    factoryStrategy,    \* the class of the instance returned, or "none"
    factoryOperation,   \* what _choose_operation returned, or "none"
    factoryOutcome  \* [ok, issued, unknown, result] of execute_operation

factoryVars ==
    <<factoryCfg, factoryPc, factoryStrategy, factoryOperation, factoryOutcome>>

\* One RedisClientManager and the threads that call get_client
\* (redis_client_manager.py 11-65).
VARIABLES
    managerCfg,     \* [num_clients, created]: created[i], RedisClient(config)
                    \* number i returned (TRUE) or raised (FALSE)
    managerState,   \* "idle", "new", "ready", "raised" (RuntimeError)
    clients,        \* self.clients: the numbers of the instances created
    clientCounter,  \* self._client_counter
    managerLock,    \* self._lock: the thread that holds it, or None
    managerPc,      \* per thread: "idle", "select", "increment", "release"
    managerLocal,   \* per thread: [counter, client] read under the lock
    managerLog      \* the calls that returned, in their order:
                    \* [counter, client] each

managerVars ==
    <<managerCfg, managerState, clients, clientCounter, managerLock,
      managerPc, managerLocal, managerLog>>

\* The workload instances of one run, one per worker thread, built from the
\* same WorkloadConfig (test_runner.py 70-76, workloads.py 54-78).
VARIABLES
    runKeyCfg,      \* [keyRange, keyPrefix]: the options shared by the workers
    runKeyCounter,  \* per worker: self._key_counter of its own instance
    runKeys         \* the keys generated in the run, in their order:
                    \* [worker, operation, id, key] each

runKeyVars == <<runKeyCfg, runKeyCounter, runKeys>>

\* the components outside the runner
compVars ==
    <<workloadVars, rateVars, pubsubVars, chooseVars, metricsVars,
      statsVars, facadeVars, keyVars, cacheVars, collectorVars, factoryVars,
      managerVars, runKeyVars>>

vars == <<runnerVars, compVars>>

\* what the actions of one component leave alone
exceptWorkload ==
    <<runnerVars, rateVars, pubsubVars, chooseVars, metricsVars, statsVars,
      facadeVars, keyVars, cacheVars, collectorVars, factoryVars,
      managerVars, runKeyVars>>
exceptRate ==
    <<runnerVars, workloadVars, pubsubVars, chooseVars, metricsVars,
      statsVars, facadeVars, keyVars, cacheVars, collectorVars, factoryVars,
      managerVars, runKeyVars>>
exceptPubSub ==
    <<runnerVars, workloadVars, rateVars, chooseVars, metricsVars,
      statsVars, facadeVars, keyVars, cacheVars, collectorVars, factoryVars,
      managerVars, runKeyVars>>
exceptChoose ==
    <<runnerVars, workloadVars, rateVars, pubsubVars, metricsVars,
      statsVars, facadeVars, keyVars, cacheVars, collectorVars, factoryVars,
      managerVars, runKeyVars>>
exceptMetrics ==
    <<runnerVars, workloadVars, rateVars, pubsubVars, chooseVars, statsVars,
      facadeVars, keyVars, cacheVars, collectorVars, factoryVars,
      managerVars, runKeyVars>>
exceptStats ==
    <<runnerVars, workloadVars, rateVars, pubsubVars, chooseVars,
      metricsVars, facadeVars, keyVars, cacheVars, collectorVars,
      factoryVars, managerVars, runKeyVars>>
exceptFacade ==
    <<runnerVars, workloadVars, rateVars, pubsubVars, chooseVars,
      metricsVars, statsVars, keyVars, cacheVars, collectorVars,
      factoryVars, managerVars, runKeyVars>>
exceptKey ==
    <<runnerVars, workloadVars, rateVars, pubsubVars, chooseVars,
      metricsVars, statsVars, facadeVars, cacheVars, collectorVars,
      factoryVars, managerVars, runKeyVars>>
exceptCache ==
    <<runnerVars, workloadVars, rateVars, pubsubVars, chooseVars,
      metricsVars, statsVars, facadeVars, keyVars, collectorVars,
      factoryVars, managerVars, runKeyVars>>
exceptCollector ==
    <<runnerVars, workloadVars, rateVars, pubsubVars, chooseVars,
      metricsVars, statsVars, facadeVars, keyVars, cacheVars, factoryVars,
      managerVars, runKeyVars>>
exceptFactory ==
    <<runnerVars, workloadVars, rateVars, pubsubVars, chooseVars,
      metricsVars, statsVars, facadeVars, keyVars, cacheVars, collectorVars,
      managerVars, runKeyVars>>
exceptManager ==
    <<runnerVars, workloadVars, rateVars, pubsubVars, chooseVars,
      metricsVars, statsVars, facadeVars, keyVars, cacheVars, collectorVars,
      factoryVars, runKeyVars>>
exceptRunKey ==
    <<runnerVars, workloadVars, rateVars, pubsubVars, chooseVars,
      metricsVars, statsVars, facadeVars, keyVars, cacheVars, collectorVars,
      factoryVars, managerVars>>

\* a component that a specification does not exercise rests in these values
WorkloadIdle ==
    /\ wlType = "Basic"
    /\ wlPc = "idle"
    /\ wlOps = << >>
    /\ wlRecords = << >>
    /\ wlResult = 0
    /\ wlRaised = FALSE
    /\ wlFailed = FALSE
    /\ wlElapsed = 0
    /\ wlSlept = "none"
    /\ wlCount = 0

RateIdle ==
    /\ rateCfg = [target |-> 1, workers |-> 1, seconds |-> 1, unit |-> 1]
    /\ ratePc = << >>
    /\ rateCount = << >>
    /\ rateClock = << >>

PubSubIdle ==
    /\ psPc = "idle"
    /\ subThread = 0
    /\ subState = << >>
    /\ subPubsub = 0
    /\ subClosed = {}
    /\ subStop = FALSE

ChooseIdle ==
    /\ chooseCfg = [operations |-> << >>, operation_weights |-> << >>,
                    type |-> "basic_rw"]
    /\ choosePc = "idle"
    /\ chooseResult = "none"

MetricsIdle ==
    /\ mtMetrics = << >>
    /\ mtHistory = << >>
    /\ mtLock = 0
    /\ mtPc = << >>
    /\ mtArg = << >>
    /\ mtTmp = << >>
    /\ mtSnapshot = << >>
    /\ mtExported = 0

StatsIdle ==
    /\ opLatencies = << >>
    /\ statsPc = "idle"
    /\ opStats = << >>

FacadeIdle ==
    /\ fcPc = "idle"
    /\ fcCall = << >>
    /\ fcRecords = << >>
    /\ fcRaised = "none"

KeyIdle ==
    /\ keyCfg = [keyRange |-> 0, keyPrefix |-> "rw_test"]
    /\ keyCounter = 0
    /\ keyLock = 0
    /\ keyPc = << >>
    /\ keyArg = << >>
    /\ keyId = << >>
    /\ keys = << >>

CacheIdle ==
    /\ valueCache = [len |-> 0, sizes |-> {}]
    /\ cacheCfg = << >>
    /\ cachePc = "idle"
    /\ cachePopulated = 0
    /\ cacheWorkers = 0
    /\ cacheIndex = [raised |-> FALSE, index |-> None]

CollectorIdle ==
    /\ colEntries = << >>
    /\ colRecorded = {}
    /\ colLastReset = 0
    /\ colCall = "idle"

NoOutcome == [ok |-> FALSE, issued |-> FALSE, unknown |-> FALSE, result |-> 0]

FactoryIdle ==
    /\ factoryCfg = [type |-> "basic_rw", usePipeline |-> FALSE,
                     operations |-> {}]
    /\ factoryPc = "idle"
    /\ factoryStrategy = "none"
    /\ factoryOperation = "none"
    /\ factoryOutcome = NoOutcome

MaxManagerThreads == 2
ManagerThreads == 1..MaxManagerThreads
NoSelection == [counter |-> None, client |-> None]

ManagerIdle ==
    /\ managerCfg = [num_clients |-> 0, created |-> << >>]
    /\ managerState = "idle"
    /\ clients = << >>
    /\ clientCounter = 0
    /\ managerLock = None
    /\ managerPc = [t \in ManagerThreads |-> "idle"]
    /\ managerLocal = [t \in ManagerThreads |-> NoSelection]
    /\ managerLog = << >>

MaxKeyWorkers == 2
KeyWorkers == 1..MaxKeyWorkers

RunKeyIdle ==
    /\ runKeyCfg = [keyRange |-> 0, keyPrefix |-> "none"]
    /\ runKeyCounter = [w \in KeyWorkers |-> 0]
    /\ runKeys = << >>

ComponentsIdle ==
    /\ WorkloadIdle
    /\ RateIdle
    /\ PubSubIdle
    /\ ChooseIdle
    /\ MetricsIdle
    /\ StatsIdle
    /\ FacadeIdle
    /\ KeyIdle
    /\ CacheIdle
    /\ CollectorIdle
    /\ FactoryIdle
    /\ ManagerIdle
    /\ RunKeyIdle

\* ---------------------------------------------------------------- helpers
Range(s) == {s[k] : k \in 1..Len(s)}

\* self.config.test.clients * self.config.test.threads_per_client
TotalThreads == cfg.clients * cfg.threads_per_client

Workers ==
    0..((IF MaxWorkers > MaxClients * MaxThreadsPerClient
         THEN MaxWorkers ELSE MaxClients * MaxThreadsPerClient) - 1)

NoHandle == -1

\* configurations with at most MaxWorkers worker threads.  The duration is
\* None, 0 or MaxDuration seconds (a run of D seconds passes through every
\* shorter elapsed time).  A target rate is configured: the runs of a
\* configuration without one are the runs of these in which no worker is ever
\* ahead of its target (see AfterOperation).  The stats reporter is enabled
\* (quiet off); it only reads the aggregator.
Configs ==
    {c \in [clients : 1..MaxWorkers,
            threads_per_client : 1..MaxWorkers,
            duration : {None, 0, MaxDuration},
            quiet : {FALSE},
            target : {TRUE}] :
        c.clients * c.threads_per_client <= MaxWorkers}

\* configurations of up to MaxClients x MaxThreadsPerClient worker threads,
\* with and without the stats reporter
WideConfigs ==
    [clients : 1..MaxClients,
     threads_per_client : 1..MaxThreadsPerClient,
     duration : {None} \cup 0..MaxDuration,
     quiet : BOOLEAN,
     target : {TRUE}]

\* Python truthiness of config.test.duration in "if self.config.test.duration:"
DurationSet == cfg.duration # None /\ cfg.duration # 0

Top == frames[Len(frames)]
Base == frames[1]
SetTop(f) == [frames EXCEPT ![Len(frames)] = f]
Frame(kind, pc, i, j) == [kind |-> kind, pc |-> pc, i |-> i, j |-> j]

\* return from stop(): a handler frame is popped, start() has returned
Return ==
    IF Top.kind = "handler"
    THEN SubSeq(frames, 1, Len(frames) - 1)
    ELSE SetTop(Frame("start", "returned", 0, 0))

\* ---------------------------------------------------------------- Init
RunnerInit(c) ==
    /\ cfg = c
    /\ frames = << Frame("start", "create", 0, 0) >>
    /\ stopEvent = FALSE
    /\ redisClients = << >>
    /\ closed = {}
    /\ workerThreads = << >>
    /\ wpc = [w \in Workers |-> "idle"]
    /\ wclient = [w \in Workers |-> NoHandle]
    /\ wfc = [w \in Workers |-> 0]
    /\ startedThreads = 0
    /\ failedThreads = 0
    /\ statsStarted = FALSE
    /\ summaryCount = 0
    /\ recorded = 0
    /\ elapsed = 0
    /\ signals = 0
    /\ raised = FALSE
    /\ waited = FALSE
    /\ joinLog = {}

InitWith(c) == RunnerInit(c) /\ ComponentsIdle

Init == \E c \in Configs : InitWith(c)

\* ---------------------------------------------------------------- start()
\* faulty variant: a failed creation is skipped and start() goes on with fewer
\* handles; it is fatal only if no handle at all was obtained
CreateClientTolerant ==
    /\ Top.kind = "start" /\ Top.pc = "create"
    /\ \E ok \in BOOLEAN :
        LET got == IF ok THEN Append(redisClients, Top.i) ELSE redisClients IN
        /\ redisClients' = got
        /\ raised' = (Top.i + 1 >= cfg.clients /\ Len(got) = 0)
        /\ frames' = SetTop(IF Top.i + 1 < cfg.clients
                            THEN Frame("start", "create", Top.i + 1, 0)
                            ELSE IF Len(got) = 0
                                 THEN Frame("start", "stop_check", 0, 0)
                                 ELSE Frame("start", "stats", 0, 0))
    /\ UNCHANGED compVars
    /\ UNCHANGED <<cfg, stopEvent, closed, workerThreads, wpc, wclient, wfc,
                   startedThreads, failedThreads, statsStarted, summaryCount,
                   recorded, elapsed, signals, waited, joinLog>>

\* for client_id in range(clients): client = self._create_redis_client() ...
\* on failure: close the clients created so far and re-raise; finally: stop()
CreateClient ==
    /\ Top.kind = "start" /\ Top.pc = "create"
    /\ \E ok \in BOOLEAN :
        IF ok
        THEN /\ redisClients' = Append(redisClients, Top.i)
             /\ frames' = SetTop(IF Top.i + 1 < cfg.clients
                                 THEN Frame("start", "create", Top.i + 1, 0)
                                 ELSE Frame("start", "stats", 0, 0))
             /\ UNCHANGED <<closed, raised>>
        ELSE /\ closed' = closed \cup Range(redisClients)
             /\ raised' = TRUE
             /\ frames' = SetTop(Frame("start", "stop_check", 0, 0))
             /\ UNCHANGED redisClients
    /\ UNCHANGED compVars
    /\ UNCHANGED <<cfg, stopEvent, workerThreads, wpc, wclient, wfc,
                   startedThreads, failedThreads, statsStarted, summaryCount,
                   recorded, elapsed, signals, waited, joinLog>>

\* initialize_value_cache(...); if not quiet: start the stats reporter
StartStats ==
    /\ Top.kind = "start" /\ Top.pc = "stats"
    /\ statsStarted' = ~cfg.quiet
    /\ frames' = SetTop(Frame("start", "spawn", 0, 0))
    /\ UNCHANGED compVars
    /\ UNCHANGED <<cfg, stopEvent, redisClients, closed, workerThreads, wpc,
                   wclient, wfc, startedThreads, failedThreads, summaryCount,
                   recorded, elapsed, signals, raised, waited, joinLog>>

\* faulty variant: round-robin over the pool by global worker index
SharedClientRoundRobin(client_id, thread_id) ==
    redisClients[((client_id * cfg.threads_per_client + thread_id)
                     % Len(redisClients)) + 1]

\* shared_client = self._redis_clients[client_id]
SharedClient(client_id, thread_id) == redisClients[client_id + 1]

\* for client_id ...: for thread_id ...: thread.start(); append(thread)
SpawnWorker ==
    /\ Top.kind = "start" /\ Top.pc = "spawn"
    /\ LET client_id == Top.i
           thread_id == Top.j
           w == Len(workerThreads)
       IN /\ wpc' = [wpc EXCEPT ![w] = "start"]
          /\ wclient' = [wclient EXCEPT ![w] = SharedClient(client_id, thread_id)]
          /\ workerThreads' = Append(workerThreads, w)
          /\ frames' = SetTop(
                IF thread_id + 1 < cfg.threads_per_client
                THEN Frame("start", "spawn", client_id, thread_id + 1)
                ELSE IF client_id + 1 < cfg.clients
                     THEN Frame("start", "spawn", client_id + 1, 0)
                     ELSE Frame("start", "settle", 0, 0))
    /\ UNCHANGED compVars
    /\ UNCHANGED <<cfg, stopEvent, redisClients, closed, wfc, startedThreads,
                   failedThreads, statsStarted, summaryCount, recorded, elapsed,
                   signals, raised, waited, joinLog>>

\* time.sleep(1.0); thread health log; start_time = time.time()
Settle ==
    /\ Top.kind = "start" /\ Top.pc = "settle"
    /\ waited' = TRUE
    /\ elapsed' = 0
    /\ frames' = SetTop(Frame("start", "wait", 0, 0))
    /\ UNCHANGED compVars
    /\ UNCHANGED <<cfg, stopEvent, redisClients, closed, workerThreads, wpc,
                   wclient, wfc, startedThreads, failedThreads, statsStarted,
                   summaryCount, recorded, signals, raised, joinLog>>

\* elapsed >= self.config.test.duration
DurationReached == elapsed >= cfg.duration

\* while not self._stop_event.is_set(): [if elapsed >= duration: break]
WaitCheck ==
    /\ Top.kind = "start" /\ Top.pc = "wait"
    /\ frames' = SetTop(
          IF stopEvent THEN Frame("start", "stop_check", 0, 0)
          ELSE IF DurationSet /\ DurationReached
               THEN Frame("start", "stop_check", 0, 0)
               ELSE Frame("start", "sleep", 0, 0))
    /\ UNCHANGED compVars
    /\ UNCHANGED <<cfg, stopEvent, redisClients, closed, workerThreads, wpc,
                   wclient, wfc, startedThreads, failedThreads, statsStarted,
                   summaryCount, recorded, elapsed, signals, raised, waited,
                   joinLog>>

\* time.sleep(min(1, duration - elapsed))   /   time.sleep(1)
WaitSleep ==
    /\ Top.kind = "start" /\ Top.pc = "sleep"
    /\ elapsed' = IF DurationSet THEN elapsed + 1 ELSE elapsed
    /\ frames' = SetTop(Frame("start", "wait", 0, 0))
    /\ UNCHANGED compVars
    /\ UNCHANGED <<cfg, stopEvent, redisClients, closed, workerThreads, wpc,
                   wclient, wfc, startedThreads, failedThreads, statsStarted,
                   summaryCount, recorded, signals, raised, waited, joinLog>>

\* ---------------------------------------------------------------- stop()
\* if self._stop_event.is_set(): return  # Already stopping
AlreadyStopping == stopEvent

StopCheck ==
    /\ Top.pc = "stop_check"
    /\ frames' = IF AlreadyStopping THEN Return
                 ELSE SetTop(Frame(Top.kind, "stop_set", 0, 0))
    /\ UNCHANGED compVars
    /\ UNCHANGED <<cfg, stopEvent, redisClients, closed, workerThreads, wpc,
                   wclient, wfc, startedThreads, failedThreads, statsStarted,
                   summaryCount, recorded, elapsed, signals, raised, waited,
                   joinLog>>

\* faulty variant: with no thread and no handle stop() returns without a summary
AfterSetNothingToStop ==
    IF Len(workerThreads) > 0 THEN "stop_join"
    ELSE IF Len(redisClients) > 0 THEN "stop_close" ELSE "returned"

\* where stop() goes after set() and after the join loop: a for loop over an
\* empty list is skipped
AfterSet == IF Len(workerThreads) > 0 THEN "stop_join"
            ELSE IF Len(redisClients) > 0 THEN "stop_close" ELSE "stop_summary"
AfterJoin == IF Len(redisClients) > 0 THEN "stop_close" ELSE "stop_summary"

\* self._stop_event.set()
StopSet ==
    /\ Top.pc = "stop_set"
    /\ stopEvent' = TRUE
    /\ frames' = SetTop(Frame(Top.kind, AfterSet, 0, 0))
    /\ UNCHANGED compVars
    /\ UNCHANGED <<cfg, redisClients, closed, workerThreads, wpc, wclient, wfc,
                   startedThreads, failedThreads, statsStarted, summaryCount,
                   recorded, elapsed, signals, raised, waited, joinLog>>

\* faulty variant: an error raised by join() is not caught and leaves stop()
AfterJoinAttemptUncaught(outcome) ==
    IF outcome = "error" THEN Return
    ELSE SetTop(IF Top.i + 1 < Len(workerThreads)
                THEN Frame(Top.kind, "stop_join", Top.i + 1, 0)
                ELSE Frame(Top.kind, IF Len(redisClients) > 0 THEN "stop_close"
                                     ELSE "stop_summary", 0, 0))

\* try: thread.join(timeout=5.0) ... except Exception: warning -- whatever the
\* outcome, the loop goes on to the next thread
AfterJoinAttempt(outcome) ==
    SetTop(IF Top.i + 1 < Len(workerThreads)
           THEN Frame(Top.kind, "stop_join", Top.i + 1, 0)
           ELSE Frame(Top.kind, AfterJoin, 0, 0))

\* try: client.close() ... except Exception: warning -- the loop goes on
AfterCloseAttempt(outcome) ==
    SetTop(IF Top.i + 1 < Len(redisClients)
           THEN Frame(Top.kind, "stop_close", Top.i + 1, 0)
           ELSE Frame(Top.kind, "stop_summary", 0, 0))

\* for thread in self._worker_threads: thread.join(timeout=5.0) in try/except
\* outcome: the thread has finished, the timeout expired, or join raised
StopJoin ==
    /\ Top.pc = "stop_join"
    /\ LET w == workerThreads[Top.i + 1] IN
       /\ \E outcome \in {"joined", "timeout", "error"} :
            /\ outcome = "joined" => wpc[w] = "done"
            /\ outcome = "timeout" => wpc[w] # "done"
            /\ frames' = AfterJoinAttempt(outcome)
       /\ joinLog' = joinLog \cup {w}
       /\ waited' = TRUE
    /\ UNCHANGED compVars
    /\ UNCHANGED <<cfg, stopEvent, redisClients, closed, workerThreads, wpc,
                   wclient, wfc, startedThreads, failedThreads, statsStarted,
                   summaryCount, recorded, elapsed, signals, raised>>

\* for i, client in enumerate(self._redis_clients): client.close() in try/except
StopClose ==
    /\ Top.pc = "stop_close"
    /\ \E outcome \in {"closed", "error"} :
         /\ closed' = closed \cup {redisClients[Top.i + 1]}
         /\ frames' = AfterCloseAttempt(outcome)
    /\ UNCHANGED compVars
    /\ UNCHANGED <<cfg, stopEvent, redisClients, workerThreads, wpc, wclient,
                   wfc, startedThreads, failedThreads, statsStarted,
                   summaryCount, recorded, elapsed, signals, raised, waited,
                   joinLog>>

\* self._output_final_summary(); "Load test stopped"; return
StopSummary ==
    /\ Top.pc = "stop_summary"
    /\ summaryCount' = summaryCount + 1
    /\ frames' = Return
    /\ UNCHANGED compVars
    /\ UNCHANGED <<cfg, stopEvent, redisClients, closed, workerThreads, wpc,
                   wclient, wfc, startedThreads, failedThreads, statsStarted,
                   recorded, elapsed, signals, raised, waited, joinLog>>

\* SIGINT / SIGTERM: _signal_handler runs on top of the main thread's stack and
\* calls stop().  When the event is already set stop() returns at once and the
\* signal changes nothing; otherwise the handler's stop() is past its test.
Signal ==
    /\ signals < MaxSignals
    /\ Base.pc # "returned"
    /\ ~AlreadyStopping
    /\ signals' = signals + 1
    /\ frames' = Append(frames, Frame("handler", "stop_set", 0, 0))
    /\ UNCHANGED compVars
    /\ UNCHANGED <<cfg, stopEvent, redisClients, closed, workerThreads, wpc,
                   wclient, wfc, startedThreads, failedThreads, statsStarted,
                   summaryCount, recorded, elapsed, raised, waited, joinLog>>

MainStep ==
    \/ CreateClient \/ StartStats \/ SpawnWorker \/ Settle
    \/ WaitCheck \/ WaitSleep
    \/ StopCheck \/ StopSet \/ StopJoin \/ StopClose \/ StopSummary

\* ---------------------------------------------------------------- workers
\* with self._thread_lock: self._started_threads += 1
WBegin(w) ==
    /\ wpc[w] = "start"
    /\ startedThreads' = startedThreads + 1
    /\ wpc' = [wpc EXCEPT ![w] = "create"]
    /\ UNCHANGED compVars
    /\ UNCHANGED <<cfg, frames, stopEvent, redisClients, closed, workerThreads,
                   wclient, wfc, failedThreads, statsStarted, summaryCount,
                   recorded, elapsed, signals, raised, waited, joinLog>>

\* workload = WorkloadFactory.create_workload(...); on an exception:
\* with self._thread_lock: self._failed_threads += 1; failed_count = ...
WCreate(w) ==
    /\ wpc[w] = "create"
    /\ \E ok \in BOOLEAN :
        IF ok
        THEN /\ wpc' = [wpc EXCEPT ![w] = "loop"]
             /\ UNCHANGED <<failedThreads, wfc>>
        ELSE /\ failedThreads' = failedThreads + 1
             /\ wfc' = [wfc EXCEPT ![w] = failedThreads + 1]
             /\ wpc' = [wpc EXCEPT ![w] = "failed"]
    /\ UNCHANGED compVars
    /\ UNCHANGED <<cfg, frames, stopEvent, redisClients, closed, workerThreads,
                   wclient, startedThreads, statsStarted, summaryCount,
                   recorded, elapsed, signals, raised, waited, joinLog>>

\* faulty variant: the run is stopped as soon as one worker has failed
AllFailedAnyWorker(failed_count) == failed_count >= 1

\* if failed_count >= total_threads
AllFailed(failed_count) == failed_count >= TotalThreads

\* faulty variant: a worker whose construction failed tries again
WFailCheckRetry(w) ==
    /\ wpc[w] = "failed"
    /\ stopEvent' = (stopEvent \/ AllFailed(wfc[w]))
    /\ wpc' = [wpc EXCEPT ![w] = "create"]
    /\ wfc' = [wfc EXCEPT ![w] = 0]
    /\ UNCHANGED compVars
    /\ UNCHANGED <<cfg, frames, redisClients, closed, workerThreads, wclient,
                   startedThreads, failedThreads, statsStarted, summaryCount,
                   recorded, elapsed, signals, raised, waited, joinLog>>

\* if failed_count >= total_threads: self._stop_event.set(); return
\* (finally: workload is None, nothing to clean up)
WFailCheck(w) ==
    /\ wpc[w] = "failed"
    /\ stopEvent' = (stopEvent \/ AllFailed(wfc[w]))
    /\ wpc' = [wpc EXCEPT ![w] = "done"]
    /\ wfc' = [wfc EXCEPT ![w] = 0]
    /\ UNCHANGED compVars
    /\ UNCHANGED <<cfg, frames, redisClients, closed, workerThreads, wclient,
                   startedThreads, failedThreads, statsStarted, summaryCount,
                   recorded, elapsed, signals, raised, waited, joinLog>>

\* faulty variant: while True
LoopConditionAlways == TRUE

\* while not self._stop_event.is_set()
LoopCondition == ~stopEvent

WLoopCheck(w) ==
    /\ wpc[w] = "loop"
    /\ wpc' = [wpc EXCEPT ![w] = IF LoopCondition THEN "exec" ELSE "cleanup"]
    /\ UNCHANGED compVars
    /\ UNCHANGED <<cfg, frames, stopEvent, redisClients, closed, workerThreads,
                   wclient, wfc, startedThreads, failedThreads, statsStarted,
                   summaryCount, recorded, elapsed, signals, raised, waited,
                   joinLog>>

\* faulty variant: an exception of execute_operation() escapes the loop
AfterOperationEscapes(outcome, ahead) ==
    CASE outcome = "returned" -> IF cfg.target /\ ahead THEN "pause" ELSE "loop"
      [] outcome = "raised" -> "cleanup"
      [] outcome = "hung" -> "hung"

\* where the worker goes after workload.execute_operation():
\*   returned: pacing sleep ("pause") if a target is configured and the worker
\*             is ahead of it (operation_count > expected_ops), else the loop test
\*   raised:   except Exception: log; time.sleep(0.1)  ("backoff")
\*   hung:     the store operation never returns
AfterOperation(outcome, ahead) ==
    CASE outcome = "returned" -> IF cfg.target /\ ahead THEN "pause" ELSE "loop"
      [] outcome = "raised" -> "backoff"
      [] outcome = "hung" -> "hung"

\* the aggregator's count of records; MaxOps stands for "MaxOps or more"
Record(n) == IF n < MaxOps THEN n + 1 ELSE MaxOps

WExec(w) ==
    /\ wpc[w] = "exec"
    /\ \E outcome \in {"returned", "raised", "hung"}, ahead \in BOOLEAN :
         /\ wpc' = [wpc EXCEPT ![w] = AfterOperation(outcome, ahead)]
         /\ recorded' = IF outcome = "hung" THEN recorded ELSE Record(recorded)
    /\ UNCHANGED compVars
    /\ UNCHANGED <<cfg, frames, stopEvent, redisClients, closed, workerThreads,
                   wclient, wfc, startedThreads, failedThreads, statsStarted,
                   summaryCount, elapsed, signals, raised, waited, joinLog>>

\* time.sleep(min(sleep_time, 0.1))  /  time.sleep(0.1): back to the loop test
WPause(w) ==
    /\ wpc[w] \in {"pause", "backoff"}
    /\ wpc' = [wpc EXCEPT ![w] = "loop"]
    /\ UNCHANGED compVars
    /\ UNCHANGED <<cfg, frames, stopEvent, redisClients, closed, workerThreads,
                   wclient, wfc, startedThreads, failedThreads, statsStarted,
                   summaryCount, recorded, elapsed, signals, raised, waited,
                   joinLog>>

\* finally: workload.cleanup() in try/except; "Thread finished"
WCleanup(w) ==
    /\ wpc[w] = "cleanup"
    /\ wpc' = [wpc EXCEPT ![w] = "done"]
    /\ UNCHANGED compVars
    /\ UNCHANGED <<cfg, frames, stopEvent, redisClients, closed, workerThreads,
                   wclient, wfc, startedThreads, failedThreads, statsStarted,
                   summaryCount, recorded, elapsed, signals, raised, waited,
                   joinLog>>

WorkerStep(w) ==
    \/ WBegin(w) \/ WCreate(w) \/ WFailCheck(w) \/ WLoopCheck(w)
    \/ WExec(w) \/ WPause(w) \/ WCleanup(w)

Next ==
    \/ MainStep
    \/ Signal
    \/ \E w \in Workers : WorkerStep(w)

Spec == Init /\ [][Next]_vars

\* the main thread and every worker thread are scheduled by the OS
\* (a configuration of Configs has the workers 0..MaxWorkers-1 at most)
FairSpec ==
    /\ Spec
    /\ WF_vars(MainStep)
    /\ \A w \in 0..(MaxWorkers - 1) : WF_vars(WorkerStep(w))

\* start() alone, for up to MaxClients x MaxThreadsPerClient workers: the
\* threads it starts are not scheduled before it returns
StartInit == \E c \in WideConfigs : InitWith(c)
StartSpec == StartInit /\ [][MainStep]_vars

TypeOK ==
    /\ cfg \in Configs \cup WideConfigs
    /\ stopEvent \in BOOLEAN
    /\ summaryCount \in Nat
    /\ recorded \in 0..MaxOps

\* ---------------------------------------------------------------- workloads
\* One worker thread looping over execute_operation() of its workload
\* (test_runner.py 93-116, workloads.py 172-629).  Durations are whole time
\* units; an average D / B is kept as the pair num = D, den = B.
MaxBatch == 2
MaxElapsed == 2
MaxCount == 2

Strategies == {"Basic", "List", "Pipeline", "Transaction", "PubSub"}
BatchStrategies == {"Pipeline", "Transaction"}

\* the operation names that a configured operation list is drawn from here:
\* each strategy has one it handles and one it does not
WlOperations == {"SET", "DEL", "LPUSH", "PUBLISH", "SUBSCRIBE"}

\* the branches of the if / elif chain of each execute_operation
Handled(strategy) ==
    CASE strategy = "Basic" -> {"SET", "GET", "DEL", "INCR"}
      [] strategy = "List" -> {"LPUSH", "RPUSH", "LRANGE", "LPOP", "RPOP"}
      [] strategy = "PubSub" -> {"PUBLISH", "SUBSCRIBE"}
      [] strategy = "Transaction" -> {"SET", "GET", "INCR"}
      [] strategy = "Pipeline" ->
            {"SET", "GET", "DEL", "EXPIRE", "TTL", "EXISTS", "TYPE", "APPEND",
             "STRLEN", "INCR", "INCRBY", "DECR", "DECRBY", "LPUSH", "LRANGE",
             "LTRIM", "RPUSH", "RPOP", "LPOP", "LLEN", "SADD", "SREM",
             "SMEMBERS", "SCARD", "HSET", "HGET", "HDEL", "HGETALL", "HLEN",
             "ZADD", "ZREM", "ZRANGE", "ZCARD", "ZSCORE"}

\* the operation_name under which the RedisClient method of an operation
\* records it: delete() records "DELETE", the others their own name
OperationName(operation) == IF operation = "DEL" THEN "DELETE" ELSE operation

\* time.time() - start_time: negative when the wall clock was set back
\* between the two readings
WallClockDeltas == (0 - MaxElapsed)..MaxElapsed

\* max(0.0, time.time() - start_time)
ClampDuration(delta) == IF delta > 0 THEN delta ELSE 0

\* the durations measured by RedisClient (clamped) and by the batch
\* strategies (not clamped)
ClientDurations == {ClampDuration(delta) : delta \in WallClockDeltas}
BatchDurations == WallClockDeltas

\* one call record_operation(operation, num / den, success)
Rec(operation, num, den, success) ==
    [operation |-> operation, num |-> num, den |-> den, success |-> success]

\* faulty variant: a failed store operation leaves no record
ExecuteWithMetricsSilent(operation_name, duration, ok) ==
    IF ok THEN << Rec(operation_name, duration, 1, TRUE) >> ELSE << >>

\* RedisClient._execute_with_metrics: one record on success, one on failure,
\* then the result is returned or the exception re-raised
ExecuteWithMetrics(operation_name, duration, ok) ==
    << Rec(operation_name, duration, 1, ok) >>

\* the methods that class MetricsCollector defines; calling any other
\* attribute of the collector raises AttributeError
CollectorMethods ==
    {"record_operation", "record_connection_attempt", "record_reconnection",
     "update_active_connections", "update_calculated_metrics", "create_span",
     "get_operation_stats", "get_overall_stats", "get_detailed_stats",
     "reset_interval_metrics", "export_to_json", "print_summary"}

HasMethod(name) == name \in CollectorMethods

\* RedisClient.publish, inside try ... except Exception:
\*   store ok:     record_operation("PUBLISH", d, True), then
\*                 record_pubsub_operation(...); if that call raises, the
\*                 handler records ("PUBLISH", d, False, ...) as well
\*   store raised: the handler records ("PUBLISH", d, False, ...)
\* and each handler run calls record_pubsub_operation(...) before "raise"
PublishRecords(duration, ok) ==
    IF ok
    THEN << Rec("PUBLISH", duration, 1, TRUE) >>
             \o (IF HasMethod("record_pubsub_operation") THEN << >>
                 ELSE << Rec("PUBLISH", duration, 1, FALSE) >>)
    ELSE << Rec("PUBLISH", duration, 1, FALSE) >>

\* the exception that leaves publish ("none": it returns the result)
PublishRaised(error) ==
    IF HasMethod("record_pubsub_operation") THEN error ELSE "AttributeError"

\* faulty variant: every record of a batch carries the whole duration
AvgDurationWhole(duration, operations_count) == 1

\* avg_duration = duration / operations_count: the denominator of the pair
AvgDuration(duration, operations_count) == operations_count

\* the operations of a batch that were queued on the pipe: the entries of
\* operations that have a branch in the if / elif chain
Queued(strategy, operations) ==
    LET IsHandled(o) == o \in Handled(strategy)
    IN  SelectSeq(operations, IsHandled)

\* what a batch whose pipe.execute() returned (ok) or raised records:
\*   Pipeline, both cases, and Transaction on success: one record per entry
\*   of operations, at the average duration;
\*   Transaction on failure: the single record ("MULTI/EXEC", 0, False)
BatchRecords(strategy, operations, duration, ok) ==
    IF strategy = "Transaction" /\ ~ok
    THEN << Rec("MULTI/EXEC", 0, 1, FALSE) >>
    ELSE [k \in 1..Len(operations) |->
            Rec(operations[k], duration,
                AvgDuration(duration, Len(operations)), ok)]

\* what execute_operation returns after the batch: the inner handler of
\* Pipeline re-raises, its outer "except Exception" returns 0; the handler of
\* Transaction returns 0
BatchResult(strategy, operations_count, ok) ==
    IF ok THEN operations_count ELSE 0

\* while not self._stop_event.is_set(): next call of execute_operation
WlLoop ==
    /\ UNCHANGED exceptWorkload
    /\ wlPc = "loop"
    /\ LoopCondition
    /\ wlPc' = "call"
    /\ UNCHANGED <<wlType, wlOps, wlRecords, wlResult, wlRaised, wlFailed,
                   wlElapsed, wlSlept, wlCount>>

\* Basic, List, PubSub: operation = self._choose_operation(), before the try
\* block; random.choices raises ValueError when the weights sum to zero
WlChoose ==
    /\ UNCHANGED exceptWorkload
    /\ wlPc = "call"
    /\ wlType \notin BatchStrategies
    /\ wlRecords' = << >>
    /\ wlFailed' = FALSE
    /\ wlSlept' = "none"
    /\ wlElapsed' = 0
    /\ \E chosen \in BOOLEAN, operation \in WlOperations :
         IF chosen
         THEN /\ wlOps' = << operation >>
              /\ wlPc' = "dispatch"
              /\ UNCHANGED <<wlResult, wlRaised>>
         ELSE /\ wlOps' = << >>
              /\ wlPc' = "returned"
              /\ wlRaised' = TRUE
              /\ wlResult' = 0
    /\ UNCHANGED <<wlType, wlCount>>

\* Basic, List, PubSub: the if / elif chain inside try ... except Exception.
\*   unknown operation: warning, return 0 (List: False), nothing recorded
\*   SUBSCRIBE: the subscriber thread is started if none is alive (PubSubSpec);
\*              no store operation, nothing recorded, return 1
\*   PUBLISH:   self.client.publish; whatever it raises is caught here
\*   otherwise: the RedisClient method; success: return 1; exception:
\*              recorded by the client, caught here, logged, return 0
WlSingle ==
    /\ UNCHANGED exceptWorkload
    /\ wlPc = "dispatch"
    /\ LET operation == wlOps[1] IN
         IF operation \notin Handled(wlType)
         THEN /\ wlResult' = 0
              /\ UNCHANGED <<wlRecords, wlFailed, wlElapsed>>
         ELSE IF operation = "SUBSCRIBE"
         THEN /\ wlResult' = 1
              /\ UNCHANGED <<wlRecords, wlFailed, wlElapsed>>
         ELSE IF operation = "PUBLISH"
         THEN \E ok \in BOOLEAN, duration \in ClientDurations :
                LET error == IF ok THEN "none" ELSE "ConnectionError"
                    failed == PublishRaised(error) # "none"
                IN  /\ wlRecords' = PublishRecords(duration, ok)
                    /\ wlFailed' = failed
                    /\ wlElapsed' = duration
                    /\ wlResult' = IF failed THEN 0 ELSE 1
         ELSE \E ok \in BOOLEAN, duration \in ClientDurations :
                /\ wlRecords' = ExecuteWithMetrics(OperationName(operation),
                                                   duration, ok)
                /\ wlFailed' = ~ok
                /\ wlElapsed' = duration
                /\ wlResult' = IF ok THEN 1 ELSE 0
    /\ wlRaised' = FALSE
    /\ wlPc' = "returned"
    /\ UNCHANGED <<wlType, wlOps, wlSlept, wlCount>>

\* Pipeline, Transaction: pipelineSize / transactionSize operations are
\* chosen and appended to operations, queued or not; an empty list returns 0
WlBuild ==
    /\ UNCHANGED exceptWorkload
    /\ wlPc = "call"
    /\ wlType \in BatchStrategies
    /\ wlRecords' = << >>
    /\ wlFailed' = FALSE
    /\ wlSlept' = "none"
    /\ wlElapsed' = 0
    /\ wlRaised' = FALSE
    /\ \E size \in 0..MaxBatch :
         \E operations \in [1..size -> WlOperations] :
            /\ wlOps' = operations
            /\ IF size = 0
               THEN wlPc' = "returned" /\ wlResult' = 0
               ELSE wlPc' = "execute" /\ UNCHANGED wlResult
    /\ UNCHANGED <<wlType, wlCount>>

\* start_time = time.time(); pipe.execute(); the records; the return value
WlExecute ==
    /\ UNCHANGED exceptWorkload
    /\ wlPc = "execute"
    /\ \E ok \in BOOLEAN, duration \in BatchDurations :
         /\ wlRecords' = BatchRecords(wlType, wlOps, duration, ok)
         /\ wlResult' = BatchResult(wlType, Len(wlOps), ok)
         /\ wlFailed' = ~ok
         /\ wlElapsed' = duration
    /\ wlRaised' = FALSE
    /\ wlPc' = "returned"
    /\ UNCHANGED <<wlType, wlOps, wlSlept, wlCount>>

\* operation_count += ops_executed if ops_executed > 0 else 0
OperationCount(operation_count, ops_executed) ==
    LET n == operation_count + (IF ops_executed > 0 THEN ops_executed ELSE 0)
    IN  IF n < MaxCount THEN n ELSE MaxCount

\* back in the worker loop (99-116): the count, then the pacing sleep when the
\* worker is ahead of its target (operation_count > expected_ops >= 0), or
\* the handler of the loop when the call raised
WlAfter ==
    /\ UNCHANGED exceptWorkload
    /\ wlPc = "returned"
    /\ LET count == IF wlRaised THEN wlCount
                    ELSE OperationCount(wlCount, wlResult)
       IN  /\ wlCount' = count
           /\ \E ahead \in BOOLEAN :
                /\ ahead => count > 0
                /\ wlPc' = AfterOperation(IF wlRaised THEN "raised"
                                          ELSE "returned", ahead)
    /\ UNCHANGED <<wlType, wlOps, wlRecords, wlResult, wlRaised, wlFailed,
                   wlElapsed, wlSlept>>

\* time.sleep(min(sleep_time, 0.1)) ("pause") / time.sleep(0.1) ("backoff")
WlSleep ==
    /\ UNCHANGED exceptWorkload
    /\ wlPc \in {"pause", "backoff"}
    /\ wlSlept' = wlPc
    /\ wlPc' = "loop"
    /\ UNCHANGED <<wlType, wlOps, wlRecords, wlResult, wlRaised, wlFailed,
                   wlElapsed, wlCount>>

WorkloadStep ==
    \/ WlLoop \/ WlChoose \/ WlSingle \/ WlBuild \/ WlExecute
    \/ WlAfter \/ WlSleep

\* a worker past create_workload, with a workload of any class, a target
\* rate configured and no stop requested
WorkloadInit ==
    /\ RunnerInit([clients |-> 1, threads_per_client |-> 1, duration |-> None,
                   quiet |-> FALSE, target |-> TRUE])
    /\ wlType \in Strategies
    /\ wlPc = "loop"
    /\ wlOps = << >>
    /\ wlRecords = << >>
    /\ wlResult = 0
    /\ wlRaised = FALSE
    /\ wlFailed = FALSE
    /\ wlElapsed = 0
    /\ wlSlept = "none"
    /\ wlCount = 0
    /\ RateIdle
    /\ PubSubIdle
    /\ ChooseIdle
    /\ MetricsIdle
    /\ StatsIdle
    /\ FacadeIdle
    /\ KeyIdle
    /\ CacheIdle
    /\ CollectorIdle
    /\ FactoryIdle
    /\ ManagerIdle
    /\ RunKeyIdle

WorkloadSpec == WorkloadInit /\ [][WorkloadStep]_vars

\* ---------------------------------------------------------------- rate limiter
\* The pacing of the worker loop (test_runner.py 79-110) on a simulated clock:
\* operations succeed and take no time, only time.sleep advances a worker's
\* clock, and the stop event is set when rateSeconds seconds have elapsed.
\* Time is counted in ticks of 100 ms; a worker's elapsed time is kept
\* multiplied by the global target T, which keeps every quantity an integer:
\*   thread_target_ops = T / W per second = T / (TicksPerSecond * W) per tick
\*   expected_ops      = elapsed * thread_target_ops
\*   sleep_time        = (operation_count - expected_ops) / thread_target_ops
\*                     = operation_count * TicksPerSecond * W / T - elapsed
MaxTarget == 12
MaxRateWorkers == 2
MaxSeconds == 1
MaxUnpaced == 2

TicksPerSecond == 10
\* min(sleep_time, 0.1): one tick
SleepCap == 1

RateWorkers == 1..MaxRateWorkers

\* if thread_target_ops: a target of None or 0 means no pacing (target 0 here)
TargetConfigured == rateCfg.target # 0

\* operation_count > expected_ops
Ahead(operation_count, elapsedT) ==
    operation_count * TicksPerSecond * rateCfg.workers > elapsedT

\* sleep_time, in ticks multiplied by T
SleepTime(operation_count, elapsedT) ==
    operation_count * TicksPerSecond * rateCfg.workers - elapsedT

\* faulty variant: the worker sleeps the whole sleep_time at once
CappedSleepWhole(sleep_time) == sleep_time

\* min(sleep_time, 0.1), in ticks multiplied by T
CappedSleep(sleep_time) ==
    IF sleep_time < SleepCap * rateCfg.target
    THEN sleep_time ELSE SleepCap * rateCfg.target

\* the main thread sets the stop event once the duration has elapsed
RateStopped(elapsedT) ==
    elapsedT >= rateCfg.seconds * TicksPerSecond * rateCfg.target

\* the simulated clock hands the next step to a worker that is not later in
\* time than any other running worker
RateTurn(w) ==
    \A v \in RateWorkers :
        ratePc[v] \in {"loop", "exec", "limit"} => rateClock[w] <= rateClock[v]

\* while not self._stop_event.is_set().  With a target the simulated clock
\* decides; without one no simulated time passes, and the event is found set
\* at any iteration: at the latest after MaxUnpaced operations, and at once
\* if another worker has already found it set
RateLoop(w) ==
    /\ UNCHANGED exceptRate
    /\ ratePc[w] = "loop"
    /\ RateTurn(w)
    /\ \E stop \in BOOLEAN :
         /\ TargetConfigured => (stop <=> RateStopped(rateClock[w]))
         /\ (/\ ~TargetConfigured
             /\ \/ rateCount[w] >= MaxUnpaced
                \/ \E v \in RateWorkers : ratePc[v] = "done") => stop
         /\ ratePc' = [ratePc EXCEPT ![w] = IF stop THEN "done" ELSE "exec"]
    /\ UNCHANGED <<rateCfg, rateCount, rateClock>>

\* ops_executed = workload.execute_operation(); operation_count += ...
\* (rateCfg.unit operations per call: 1, or the size of a batch)
RateExec(w) ==
    /\ UNCHANGED exceptRate
    /\ ratePc[w] = "exec"
    /\ RateTurn(w)
    /\ rateCount' = [rateCount EXCEPT ![w] = @ + rateCfg.unit]
    /\ ratePc' = [ratePc EXCEPT ![w] = "limit"]
    /\ UNCHANGED <<rateCfg, rateClock>>

\* if thread_target_ops: if operation_count > expected_ops:
\* time.sleep(min(sleep_time, 0.1)); then the next iteration of the loop,
\* whatever remained of sleep_time
RateLimit(w) ==
    /\ UNCHANGED exceptRate
    /\ ratePc[w] = "limit"
    /\ RateTurn(w)
    /\ rateClock' =
         [rateClock EXCEPT ![w] =
            IF TargetConfigured /\ Ahead(rateCount[w], @)
            THEN @ + CappedSleep(SleepTime(rateCount[w], @))
            ELSE @]
    /\ ratePc' = [ratePc EXCEPT ![w] = "loop"]
    /\ UNCHANGED <<rateCfg, rateCount>>

RateStep == \E w \in RateWorkers : RateLoop(w) \/ RateExec(w) \/ RateLimit(w)

RECURSIVE RateTotal(_)
RateTotal(n) == IF n = 0 THEN 0 ELSE rateCount[n] + RateTotal(n - 1)

RateConfigs ==
    [target : 0..MaxTarget, workers : RateWorkers, seconds : 1..MaxSeconds,
     unit : {1, MaxBatch}]

RateInit ==
    /\ RunnerInit([clients |-> 1, threads_per_client |-> 1, duration |-> None,
                   quiet |-> FALSE, target |-> TRUE])
    /\ WorkloadIdle
    /\ rateCfg \in RateConfigs
    /\ ratePc = [w \in RateWorkers |->
                    IF w <= rateCfg.workers THEN "loop" ELSE "idle"]
    /\ rateCount = [w \in RateWorkers |-> 0]
    /\ rateClock = [w \in RateWorkers |-> 0]
    /\ PubSubIdle
    /\ ChooseIdle
    /\ MetricsIdle
    /\ StatsIdle
    /\ FacadeIdle
    /\ KeyIdle
    /\ CacheIdle
    /\ CollectorIdle
    /\ FactoryIdle
    /\ ManagerIdle
    /\ RunKeyIdle

RateSpec == RateInit /\ [][RateStep]_vars

\* ---------------------------------------------------------------- pub/sub
\* One PubSubWorkload instance (workloads.py 521-648): the worker thread that
\* owns it calls execute_operation and, at its end, cleanup; each subscriber
\* thread runs _start_subscriber.  Threads are numbered in creation order;
\* 0 stands for None.
MaxSubscribers == 3

SubscriberIds == 1..MaxSubscribers

\* Thread.is_alive(): from start() until the target function has returned
IsAlive(t) ==
    subState[t] \in {"connecting", "listening", "polling", "closing"}

\* faulty variant: SUBSCRIBE starts a thread whenever it is executed
NeedsSubscriberAlways == TRUE

\* self._subscriber_thread is None or not self._subscriber_thread.is_alive()
NeedsSubscriber == subThread = 0 \/ ~IsAlive(subThread)

\* execute_operation, operation PUBLISH (or an unknown one): the subscriber
\* is not touched
PsPublish ==
    /\ UNCHANGED exceptPubSub
    /\ psPc = "ready"
    /\ psPc' = "published"
    /\ UNCHANGED <<subThread, subState, subPubsub, subClosed, subStop>>

\* return 1 / return 0: back in the worker loop
PsReturn ==
    /\ UNCHANGED exceptPubSub
    /\ psPc \in {"published", "subscribed"}
    /\ psPc' = "ready"
    /\ UNCHANGED <<subThread, subState, subPubsub, subClosed, subStop>>

\* execute_operation, operation SUBSCRIBE: the test of lines 611-614
PsSubscribeCheck ==
    /\ UNCHANGED exceptPubSub
    /\ psPc = "ready"
    /\ psPc' = IF NeedsSubscriber THEN "start" ELSE "subscribed"
    /\ UNCHANGED <<subThread, subState, subPubsub, subClosed, subStop>>

\* self._subscriber_thread = threading.Thread(...); daemon; start()
PsSubscribeStart ==
    /\ UNCHANGED exceptPubSub
    /\ psPc = "start"
    /\ \E t \in SubscriberIds :
         /\ subState[t] = "unborn"
         /\ \A u \in SubscriberIds : u < t => subState[u] # "unborn"
         /\ subThread' = t
         /\ subState' = [subState EXCEPT ![t] = "connecting"]
    /\ psPc' = "subscribed"
    /\ UNCHANGED <<subPubsub, subClosed, subStop>>

\* _start_subscriber: self._pubsub = self.client.pubsub(); subscribe to the
\* channels; an exception goes to the finally block
SubConnect(t) ==
    /\ UNCHANGED exceptPubSub
    /\ subState[t] = "connecting"
    /\ \E ok \in BOOLEAN :
         IF ok
         THEN /\ subPubsub' = t
              /\ \E subscribed \in BOOLEAN :
                   subState' = [subState EXCEPT ![t] =
                                  IF subscribed THEN "listening" ELSE "closing"]
         ELSE /\ subState' = [subState EXCEPT ![t] = "closing"]
              /\ UNCHANGED subPubsub
    /\ UNCHANGED <<psPc, subThread, subClosed, subStop>>

\* faulty variant: the subscriber never looks at the stop event
StopObservedNever == FALSE

\* the loop test of the subscriber: self._stop_subscriber.is_set()
StopObserved == subStop

\* while not self._stop_subscriber.is_set(): the loop ends when the event
\* is found set, otherwise the thread polls
SubListen(t) ==
    /\ UNCHANGED exceptPubSub
    /\ subState[t] = "listening"
    /\ subState' = [subState EXCEPT ![t] =
                      IF StopObserved THEN "closing" ELSE "polling"]
    /\ UNCHANGED <<psPc, subThread, subPubsub, subClosed, subStop>>

\* get_message(timeout=0.5) returns a message, or None when the timeout
\* expires, or raises.  The loop ends when it raises and when the call of
\* record_pubsub_operation for a received message raises; otherwise the
\* thread is back at the loop test
SubPoll(t) ==
    /\ UNCHANGED exceptPubSub
    /\ subState[t] = "polling"
    /\ \E message \in {"none", "message", "error"} :
         subState' = [subState EXCEPT ![t] =
                        IF \/ message = "error"
                           \/ /\ message = "message"
                              /\ ~HasMethod("record_pubsub_operation")
                        THEN "closing" ELSE "listening"]
    /\ UNCHANGED <<psPc, subThread, subPubsub, subClosed, subStop>>

\* finally: if self._pubsub: self._pubsub.close(); the thread ends
SubClose(t) ==
    /\ UNCHANGED exceptPubSub
    /\ subState[t] = "closing"
    /\ subClosed' = IF subPubsub # 0 THEN subClosed \cup {subPubsub}
                    ELSE subClosed
    /\ subState' = [subState EXCEPT ![t] = "dead"]
    /\ UNCHANGED <<psPc, subThread, subPubsub, subStop>>

\* cleanup(), called once by the worker when its loop has ended, first
\* statement: self._stop_subscriber.set()
PsCleanupSet ==
    /\ UNCHANGED exceptPubSub
    /\ psPc = "ready"
    /\ subStop' = TRUE
    /\ psPc' = "joining"
    /\ UNCHANGED <<subThread, subState, subPubsub, subClosed>>

\* if self._subscriber_thread and self._subscriber_thread.is_alive():
\* join(timeout=2.0) inside try / except: the call returns when the thread
\* has ended or when the timeout has expired, whichever comes first, so it
\* does not depend on the state of the thread
PsCleanupJoin ==
    /\ UNCHANGED exceptPubSub
    /\ psPc = "joining"
    /\ psPc' = "close"
    /\ UNCHANGED <<subThread, subState, subPubsub, subClosed, subStop>>

\* try: self._pubsub.close() except Exception: pass
CleanupAfterClose(ok) == "finished"

\* if self._pubsub: self._pubsub.close(), which may raise
PsCleanupClose ==
    /\ UNCHANGED exceptPubSub
    /\ psPc = "close"
    /\ \E ok \in BOOLEAN :
         /\ subClosed' = IF subPubsub # 0 /\ ok
                         THEN subClosed \cup {subPubsub} ELSE subClosed
         /\ psPc' = IF subPubsub # 0 THEN CleanupAfterClose(ok)
                    ELSE "finished"
    /\ UNCHANGED <<subThread, subState, subPubsub, subStop>>

PubSubStep ==
    \/ PsPublish \/ PsReturn \/ PsSubscribeCheck \/ PsSubscribeStart
    \/ PsCleanupSet \/ PsCleanupJoin \/ PsCleanupClose
    \/ \E t \in SubscriberIds :
         SubConnect(t) \/ SubListen(t) \/ SubPoll(t) \/ SubClose(t)

PubSubInit ==
    /\ RunnerInit([clients |-> 1, threads_per_client |-> 1, duration |-> None,
                   quiet |-> FALSE, target |-> TRUE])
    /\ WorkloadIdle
    /\ RateIdle
    /\ psPc = "ready"
    /\ subThread = 0
    /\ subState = [t \in SubscriberIds |-> "unborn"]
    /\ subPubsub = 0
    /\ subClosed = {}
    /\ subStop = FALSE
    /\ ChooseIdle
    /\ MetricsIdle
    /\ StatsIdle
    /\ FacadeIdle
    /\ KeyIdle
    /\ CacheIdle
    /\ CollectorIdle
    /\ FactoryIdle
    /\ ManagerIdle
    /\ RunKeyIdle

PubSubSpec == PubSubInit /\ [][PubSubStep]_vars

\* every thread that can take a step eventually takes one: the worker inside
\* cleanup (its calls return) and each subscriber thread
PubSubFairSpec ==
    /\ PubSubSpec
    /\ WF_vars(PsCleanupJoin)
    /\ WF_vars(PsCleanupClose)
    /\ \A t \in SubscriberIds :
         /\ WF_vars(SubConnect(t))
         /\ WF_vars(SubListen(t))
         /\ WF_vars(SubPoll(t))
         /\ WF_vars(SubClose(t))

\* ---------------------------------------------------------------- _choose_operation
\* BaseWorkload._choose_operation (workloads.py 103-118) as the set of values
\* one call can return, for a configuration drawn from small sets.
MaxListLen == 2
MaxWeight == 1

ChooseOperations == {"SET", "LPUSH", "PUBLISH"}
WorkloadTypes ==
    {"basic_rw", "high_throughput", "list_operations", "pubsub_heavy"}

\* _get_default_operation: random.choice over the list of the workload type
DefaultOperations(workload_type) ==
    CASE workload_type = "high_throughput" ->
            {"SET", "GET", "INCR", "DECR", "DEL", "EXISTS", "EXPIRE", "TTL",
             "LPUSH", "RPUSH", "LRANGE", "LPOP", "RPOP", "LLEN", "LTRIM",
             "SADD", "SREM", "SMEMBERS", "SCARD", "HSET", "HGET", "HDEL",
             "HGETALL", "HLEN", "ZADD", "ZREM", "ZRANGE", "ZCARD", "ZSCORE"}
      [] workload_type = "list_operations" ->
            {"LPUSH", "RPUSH", "LRANGE", "LPOP", "RPOP", "LLEN", "LTRIM"}
      [] workload_type = "pubsub_heavy" -> {"PUBLISH", "SUBSCRIBE"}
      [] OTHER -> {"SET", "GET", "INCR", "DECR", "DEL", "EXISTS"}

\* the number of entries of the list that are the operation
Occurrences(operations, o) ==
    Cardinality({k \in 1..Len(operations) : operations[k] = o})

\* The law of the draw made by _choose_operation: each candidate with its
\* relative weight (its probability is its weight over the total).
\*   no operation list:  random.choice over the defaults of the workload type
\*   no weight map:      random.choice(operations), an entry of the list
\*   otherwise:          random.choices(ops, weights=weights)[0]
ChooseLaw(c) ==
    IF c.operations = << >>
    THEN [o \in DefaultOperations(c.type) |-> 1]
    ELSE IF DOMAIN c.operation_weights = {}
    THEN [o \in Range(c.operations) |-> Occurrences(c.operations, o)]
    ELSE c.operation_weights

RECURSIVE SumOver(_, _)
SumOver(f, S) ==
    IF S = {} THEN 0
    ELSE LET o == CHOOSE x \in S : TRUE
         IN  f[o] + SumOver(f, S \ {o})

\* the total weight of a law
Total(f) == SumOver(f, DOMAIN f)

\* the values that _choose_operation can return for a configuration: the
\* candidates of positive weight; none when the total weight is zero
\* (random.choices raises ValueError)
ChooseOperation(c) == {o \in DOMAIN ChooseLaw(c) : ChooseLaw(c)[o] > 0}

\* one call: a value is returned, or the call raises
Choose ==
    /\ UNCHANGED exceptChoose
    /\ choosePc = "call"
    /\ IF ChooseOperation(chooseCfg) = {}
       THEN choosePc' = "raised" /\ UNCHANGED chooseResult
       ELSE /\ choosePc' = "returned"
            /\ chooseResult' \in ChooseOperation(chooseCfg)
    /\ UNCHANGED chooseCfg

ChooseConfigs ==
    [operations : UNION {[1..n -> ChooseOperations] : n \in 0..MaxListLen},
     operation_weights :
        UNION {[d -> 0..MaxWeight] : d \in SUBSET ChooseOperations},
     type : WorkloadTypes]

ChooseInit ==
    /\ RunnerInit([clients |-> 1, threads_per_client |-> 1, duration |-> None,
                   quiet |-> FALSE, target |-> TRUE])
    /\ WorkloadIdle
    /\ RateIdle
    /\ PubSubIdle
    /\ chooseCfg \in ChooseConfigs
    /\ choosePc = "call"
    /\ chooseResult = "none"
    /\ MetricsIdle
    /\ StatsIdle
    /\ FacadeIdle
    /\ KeyIdle
    /\ CacheIdle
    /\ CollectorIdle
    /\ FactoryIdle
    /\ ManagerIdle
    /\ RunKeyIdle

ChooseSpec == ChooseInit /\ [][Choose]_vars

\* ---------------------------------------------------------------- metrics
\* MetricsCollector (metrics.py 32-40, 225-262, 371-427): the per-operation
\* OperationMetrics and the calls that update and read them.  The latency
\* window is deque(maxlen=10000) in the source; MaxWindow stands for it.
MaxWindow == 2
MaxCalls == 3
MaxLatency == 1

MetricOps == {"SET", "GET"}
ErrorTypes == {"ConnectionError"}
\* error_type=None
NoErrorType == "None"

\* OperationMetrics(): the default_factory of self._metrics
NewOperationMetrics ==
    [total_count |-> 0, success_count |-> 0, error_count |-> 0,
     total_duration |-> 0, latencies |-> << >>,
     errors_by_type |-> [e \in ErrorTypes |-> 0]]

\* faulty variant: a full window refuses the new duration
DequeAppendKeepOldest(latencies, duration) ==
    IF Len(latencies) < MaxWindow THEN Append(latencies, duration)
    ELSE latencies

\* deque(maxlen=MaxWindow).append: the oldest entry leaves a full window
DequeAppend(latencies, duration) ==
    IF Len(latencies) < MaxWindow THEN Append(latencies, duration)
    ELSE Append(Tail(latencies), duration)

\* metrics.total_count += 1
AddCount(m) == [m EXCEPT !.total_count = @ + 1]

\* metrics.total_duration += duration; metrics.latencies.append(duration)
AddDuration(m, duration) ==
    [m EXCEPT !.total_duration = @ + duration,
              !.latencies = DequeAppend(@, duration)]

\* if success: success_count += 1
\* else: error_count += 1; if error_type: errors_by_type[error_type] += 1
AddStatus(m, success, error_type) ==
    IF success THEN [m EXCEPT !.success_count = @ + 1]
    ELSE IF error_type = NoErrorType THEN [m EXCEPT !.error_count = @ + 1]
    ELSE [m EXCEPT !.error_count = @ + 1,
                   !.errors_by_type[error_type] = @ + 1]

MetricCalls ==
    [operation : MetricOps, duration : 0..MaxLatency, success : BOOLEAN,
     error_type : ErrorTypes \cup {NoErrorType}]

\* record_operation(operation, duration, success, error_type): the body of
\* "with self._lock", by one caller at a time
RecordOperation ==
    /\ UNCHANGED exceptMetrics
    /\ Len(mtHistory) < MaxCalls
    /\ \E c \in MetricCalls :
         /\ mtMetrics' =
              [mtMetrics EXCEPT ![c.operation] =
                 AddStatus(AddDuration(AddCount(@), c.duration),
                           c.success, c.error_type)]
         /\ mtHistory' = Append(mtHistory, c)
    /\ UNCHANGED <<mtLock, mtPc, mtArg, mtTmp, mtSnapshot, mtExported>>

MetricsInit ==
    /\ RunnerInit([clients |-> 1, threads_per_client |-> 1, duration |-> None,
                   quiet |-> FALSE, target |-> TRUE])
    /\ WorkloadIdle
    /\ RateIdle
    /\ PubSubIdle
    /\ ChooseIdle
    /\ StatsIdle
    /\ FacadeIdle
    /\ KeyIdle
    /\ CacheIdle
    /\ CollectorIdle
    /\ FactoryIdle
    /\ ManagerIdle
    /\ RunKeyIdle
    /\ mtMetrics = [o \in MetricOps |-> NewOperationMetrics]
    /\ mtHistory = << >>
    /\ mtLock = 0
    /\ mtPc = << >>
    /\ mtArg = << >>
    /\ mtTmp = << >>
    /\ mtSnapshot = << >>
    /\ mtExported = 0

MetricsSpec == MetricsInit /\ [][RecordOperation]_vars

\* ------------------------------------------------- metrics, concurrent callers
\* MaxRecorders worker threads call record_operation while one reader thread
\* (the stats reporter, the final summary) calls get_overall_stats or
\* get_operation_stats.  "x += 1" on total_count is a load and a store.
MaxRecorders == 2

Recorders == 1..MaxRecorders
Reader == MaxRecorders + 1
MetricThreads == Recorders \cup {Reader}

\* faulty variant: the lock does not exclude anybody
CanAcquireUnlocked(t) == TRUE

\* self._lock = threading.RLock(): free, or held by the caller itself
CanAcquire(t) == mtLock = 0 \/ mtLock = t

\* the calls made by the workers here: a success, or a failure with its type
ConcurrentCalls ==
    {c \in MetricCalls :
        /\ c.duration = MaxLatency
        /\ c.error_type = IF c.success THEN NoErrorType
                          ELSE "ConnectionError"}

\* record_operation: "with self._lock:" entered; metrics = self._metrics[op]
RecAcquire(t) ==
    /\ UNCHANGED exceptMetrics
    /\ mtPc[t] = "idle"
    /\ Len(mtHistory) < MaxCalls
    /\ CanAcquire(t)
    /\ mtLock' = t
    /\ \E c \in ConcurrentCalls :
         /\ mtArg' = [mtArg EXCEPT ![t] = c]
         /\ mtHistory' = Append(mtHistory, c)
    /\ mtPc' = [mtPc EXCEPT ![t] = "load"]
    /\ UNCHANGED <<mtMetrics, mtTmp, mtSnapshot, mtExported>>

\* metrics.total_count += 1: the load
RecLoad(t) ==
    /\ UNCHANGED exceptMetrics
    /\ mtPc[t] = "load"
    /\ mtTmp' = [mtTmp EXCEPT ![t] = mtMetrics[mtArg[t].operation].total_count]
    /\ mtPc' = [mtPc EXCEPT ![t] = "store"]
    /\ UNCHANGED <<mtMetrics, mtHistory, mtLock, mtArg, mtSnapshot, mtExported>>

\* metrics.total_count += 1: the store
RecStore(t) ==
    /\ UNCHANGED exceptMetrics
    /\ mtPc[t] = "store"
    /\ mtMetrics' = [mtMetrics EXCEPT ![mtArg[t].operation].total_count =
                       mtTmp[t] + 1]
    /\ mtTmp' = [mtTmp EXCEPT ![t] = 0]
    /\ mtPc' = [mtPc EXCEPT ![t] = "status"]
    /\ UNCHANGED <<mtHistory, mtLock, mtArg, mtSnapshot, mtExported>>

\* the rest of the block (duration, window, success / error counts) and the
\* end of "with self._lock": the lock is released
RecStatus(t) ==
    /\ UNCHANGED exceptMetrics
    /\ mtPc[t] = "status"
    /\ mtMetrics' =
         [mtMetrics EXCEPT ![mtArg[t].operation] =
            AddStatus(AddDuration(@, mtArg[t].duration),
                      mtArg[t].success, mtArg[t].error_type)]
    /\ mtLock' = IF mtLock = t THEN 0 ELSE mtLock
    /\ mtPc' = [mtPc EXCEPT ![t] = "export"]
    /\ UNCHANGED <<mtHistory, mtArg, mtTmp, mtSnapshot, mtExported>>

\* after the block: otel_operations_counter.add, otel_operation_duration.record
RecExport(t) ==
    /\ UNCHANGED exceptMetrics
    /\ mtPc[t] = "export"
    /\ mtExported' = mtExported + 1
    /\ mtPc' = [mtPc EXCEPT ![t] = "idle"]
    /\ UNCHANGED <<mtMetrics, mtHistory, mtLock, mtArg, mtTmp, mtSnapshot>>

RECURSIVE SumField(_, _)
SumField(field, ops) ==
    IF ops = {} THEN 0
    ELSE LET o == CHOOSE x \in ops : TRUE
         IN  mtMetrics[o][field] + SumField(field, ops \ {o})

\* the operations a reader's call looks at: all of them (get_overall_stats)
\* or one (get_operation_stats)
ReadSet(which) == IF which = "overall" THEN MetricOps ELSE {which}

\* get_overall_stats / get_operation_stats: "with self._lock:" entered
ReadAcquire ==
    /\ UNCHANGED exceptMetrics
    /\ mtPc[Reader] = "idle"
    /\ CanAcquire(Reader)
    /\ mtLock' = Reader
    /\ \E which \in {"overall"} \cup MetricOps :
         mtArg' = [mtArg EXCEPT ![Reader] = which]
    /\ mtSnapshot' = [done |-> FALSE, total |-> 0, success |-> 0, errors |-> 0]
    /\ mtPc' = [mtPc EXCEPT ![Reader] = "total"]
    /\ UNCHANGED <<mtMetrics, mtHistory, mtTmp, mtExported>>

\* total_ops = sum(m.total_count ...)  /  'total_count': metrics.total_count
ReadTotal ==
    /\ UNCHANGED exceptMetrics
    /\ mtPc[Reader] = "total"
    /\ mtSnapshot' = [mtSnapshot EXCEPT
                        !.total = SumField("total_count", ReadSet(mtArg[Reader]))]
    /\ mtPc' = [mtPc EXCEPT ![Reader] = "success"]
    /\ UNCHANGED <<mtMetrics, mtHistory, mtLock, mtArg, mtTmp, mtExported>>

\* total_success = sum(m.success_count ...)
ReadSuccess ==
    /\ UNCHANGED exceptMetrics
    /\ mtPc[Reader] = "success"
    /\ mtSnapshot' = [mtSnapshot EXCEPT
                        !.success = SumField("success_count",
                                             ReadSet(mtArg[Reader]))]
    /\ mtPc' = [mtPc EXCEPT ![Reader] = "errors"]
    /\ UNCHANGED <<mtMetrics, mtHistory, mtLock, mtArg, mtTmp, mtExported>>

\* total_errors = sum(m.error_count ...); the stats are built and returned,
\* the lock is released
ReadErrors ==
    /\ UNCHANGED exceptMetrics
    /\ mtPc[Reader] = "errors"
    /\ mtSnapshot' = [mtSnapshot EXCEPT
                        !.errors = SumField("error_count",
                                            ReadSet(mtArg[Reader])),
                        !.done = TRUE]
    /\ mtLock' = IF mtLock = Reader THEN 0 ELSE mtLock
    /\ mtPc' = [mtPc EXCEPT ![Reader] = "idle"]
    /\ UNCHANGED <<mtMetrics, mtHistory, mtArg, mtTmp, mtExported>>

ConcurrentStep ==
    \/ \E t \in Recorders :
         RecAcquire(t) \/ RecLoad(t) \/ RecStore(t) \/ RecStatus(t)
         \/ RecExport(t)
    \/ ReadAcquire \/ ReadTotal \/ ReadSuccess \/ ReadErrors

ConcurrentInit ==
    /\ RunnerInit([clients |-> 1, threads_per_client |-> 1, duration |-> None,
                   quiet |-> FALSE, target |-> TRUE])
    /\ WorkloadIdle
    /\ RateIdle
    /\ PubSubIdle
    /\ ChooseIdle
    /\ StatsIdle
    /\ FacadeIdle
    /\ KeyIdle
    /\ CacheIdle
    /\ CollectorIdle
    /\ FactoryIdle
    /\ ManagerIdle
    /\ RunKeyIdle
    /\ mtMetrics = [o \in MetricOps |-> NewOperationMetrics]
    /\ mtHistory = << >>
    /\ mtLock = 0
    /\ mtPc = [t \in MetricThreads |-> "idle"]
    /\ mtArg = [t \in MetricThreads |-> "none"]
    /\ mtTmp = [t \in MetricThreads |-> 0]
    /\ mtSnapshot = [done |-> FALSE, total |-> 0, success |-> 0, errors |-> 0]
    /\ mtExported = 0

ConcurrentSpec == ConcurrentInit /\ [][ConcurrentStep]_vars

\* ------------------------------------------- metrics.py: get_operation_stats
\* The statistics of one operation are computed from its latency window with
\* statistics.median and statistics.quantiles.  Latencies are whole
\* milliseconds; a statistic is the fraction num / den.
MaxSamples == 100

Frac(num, den) == [num |-> num, den |-> den]

\* sorted(data)[k - 1]: the k-th smallest value of the window
SortedAt(data, k) ==
    CHOOSE x \in Range(data) :
        /\ Cardinality({i \in 1..Len(data) : data[i] < x}) < k
        /\ Cardinality({i \in 1..Len(data) : data[i] <= x}) >= k

MaxOf(s) == CHOOSE x \in Range(s) : \A y \in Range(s) : y <= x
MinOf(s) == CHOOSE x \in Range(s) : \A y \in Range(s) : x <= y

\* statistics.median: the middle value, or the mean of the two middle values
Median(data) ==
    LET n == Len(data)
    IN  IF n % 2 = 1 THEN Frac(SortedAt(data, (n + 1) \div 2), 1)
        ELSE Frac(SortedAt(data, n \div 2) + SortedAt(data, n \div 2 + 1), 2)

\* statistics.quantiles(data, n=n)[i - 1], method 'exclusive'
Quantile(data, n, i) ==
    LET ld == Len(data)
        m == ld + 1
        j0 == (i * m) \div n
        j == IF j0 < 1 THEN 1 ELSE IF j0 > ld - 1 THEN ld - 1 ELSE j0
        delta == i * m - j * n
    IN  Frac(SortedAt(data, j) * (n - delta) + SortedAt(data, j + 1) * delta,
             n)

\* faulty variant: quantiles are computed as soon as they are defined
EnoughSamplesForAny(latencies, n) == Len(latencies) >= 2

\* len(latencies) >= n, the condition for computing a quantile
EnoughSamples(latencies, n) == Len(latencies) >= n

OperationStats(latencies) ==
    IF Len(latencies) = 0 THEN << >>
    ELSE [total_count |-> Len(latencies),
          min_latency |-> MinOf(latencies),
          max_latency |-> MaxOf(latencies),
          median_latency |-> Median(latencies),
          p95_latency |-> IF EnoughSamples(latencies, 20)
                          THEN Quantile(latencies, 20, 19)
                          ELSE Frac(MaxOf(latencies), 1),
          p99_latency |-> IF EnoughSamples(latencies, 100)
                          THEN Quantile(latencies, 100, 99)
                          ELSE Frac(MaxOf(latencies), 1)]

GetOperationStats ==
    /\ statsPc = "idle"
    /\ opStats' = OperationStats(opLatencies)
    /\ statsPc' = "done"
    /\ UNCHANGED opLatencies
    /\ UNCHANGED exceptStats

\* the windows 1, 2, ..., n in recording order, ascending or descending
Ascending(n) == [k \in 1..n |-> k]
Descending(n) == [k \in 1..n |-> n + 1 - k]
Windows == {Ascending(n) : n \in 0..MaxSamples}
               \cup {Descending(n) : n \in 0..MaxSamples}

StatsInit ==
    /\ RunnerInit([clients |-> 1, threads_per_client |-> 1, duration |-> None,
                   quiet |-> FALSE, target |-> TRUE])
    /\ WorkloadIdle
    /\ RateIdle
    /\ PubSubIdle
    /\ ChooseIdle
    /\ MetricsIdle
    /\ FacadeIdle
    /\ KeyIdle
    /\ CacheIdle
    /\ CollectorIdle
    /\ FactoryIdle
    /\ ManagerIdle
    /\ RunKeyIdle
    /\ opLatencies \in Windows
    /\ statsPc = "idle"
    /\ opStats = << >>

StatsSpec == StatsInit /\ [][GetOperationStats]_vars

\* ------------------------------------- redis_client.py: the facade methods
\* the operation_name each method passes to _execute_with_metrics
FacadeNames ==
    [set |-> "SET", get |-> "GET", delete |-> "DELETE", incr |-> "INCR",
     decr |-> "DECR", lpush |-> "LPUSH", rpush |-> "RPUSH", lpop |-> "LPOP",
     rpop |-> "RPOP", lrange |-> "LRANGE", llen |-> "LLEN",
     ltrim |-> "LTRIM", append |-> "APPEND", strlen |-> "STRLEN",
     exists |-> "EXISTS", expire |-> "EXPIRE", ttl |-> "TTL",
     type |-> "TYPE", incrby |-> "INCRBY", decrby |-> "DECRBY",
     sadd |-> "SADD", srem |-> "SREM", smembers |-> "SMEMBERS",
     scard |-> "SCARD", hset |-> "HSET", hget |-> "HGET", hdel |-> "HDEL",
     hgetall |-> "HGETALL", hlen |-> "HLEN", zadd |-> "ZADD",
     zrem |-> "ZREM", zrange |-> "ZRANGE", zcard |-> "ZCARD",
     zscore |-> "ZSCORE"]

FacadeMethods == DOMAIN FacadeNames \cup {"publish"}

MethodName(method) ==
    IF method = "publish" THEN "PUBLISH" ELSE FacadeNames[method]

\* what the underlying redis-py call may raise: a connection-level error
\* (first handler of _execute_with_metrics) or another one (second handler)
StoreErrors == {"ConnectionError", "ResponseError"}

\* one call of a facade method, from entry to return or raise
FacadeCall ==
    /\ UNCHANGED exceptFacade
    /\ fcPc = "idle"
    /\ \E method \in FacadeMethods, error \in {"none"} \cup StoreErrors,
          duration \in ClientDurations :
         LET ok == error = "none"
             propagated == IF method = "publish" THEN PublishRaised(error)
                           ELSE error
         IN  /\ fcCall' = [method |-> method, error |-> error,
                           duration |-> duration]
             /\ fcRecords' = IF method = "publish"
                             THEN PublishRecords(duration, ok)
                             ELSE ExecuteWithMetrics(MethodName(method),
                                                     duration, ok)
             /\ fcRaised' = propagated
             /\ fcPc' = IF propagated = "none" THEN "returned" ELSE "raised"

FacadeInit ==
    /\ RunnerInit([clients |-> 1, threads_per_client |-> 1, duration |-> None,
                   quiet |-> FALSE, target |-> TRUE])
    /\ WorkloadIdle
    /\ RateIdle
    /\ PubSubIdle
    /\ ChooseIdle
    /\ MetricsIdle
    /\ StatsIdle
    /\ KeyIdle
    /\ CacheIdle
    /\ CollectorIdle
    /\ FactoryIdle
    /\ ManagerIdle
    /\ RunKeyIdle
    /\ fcPc = "idle"
    /\ fcCall = << >>
    /\ fcRecords = << >>
    /\ fcRaised = "none"

FacadeSpec == FacadeInit /\ [][FacadeCall]_vars

\* --------------------------------------------- workloads.py: _generate_key
MaxKeyThreads == 2
MaxKeys == 3
MaxKeyRange == 2

KeyThreads == 1..MaxKeyThreads

\* the operation argument: none, the operation name (Basic, List,
\* Transaction) or a data type followed by a colon (Pipeline)
KeyOperations == {"none", "SET", "STRING:"}

\* operation.lower(), as the pieces of the string between and at its colons
Lower(operation) ==
    CASE operation = "SET" -> << "set" >>
      [] operation = "STRING:" -> << "string", ":" >>

\* f"{key_prefix}:{operation.lower()}:{key_id}" if operation
\* else f"{key_prefix}:{key_id}", as the sequence of its pieces
FormatKey(key_prefix, operation, key_id) ==
    IF operation # "none"
    THEN << key_prefix, ":" >> \o Lower(operation) \o << ":", key_id >>
    ELSE << key_prefix, ":", key_id >>

\* faulty variant: the counter is not protected by the lock
KeyCanAcquireUnlocked == TRUE

\* with self._key_lock: the lock is free
KeyCanAcquire == keyLock = 0

\* a thread calls _generate_key(operation) and enters the with block
KeyEnter(t) ==
    /\ UNCHANGED exceptKey
    /\ keyPc[t] = "idle"
    /\ Len(keys) + Cardinality({u \in KeyThreads : keyPc[u] # "idle"}) < MaxKeys
    /\ KeyCanAcquire
    /\ keyLock' = t
    /\ \E operation \in KeyOperations :
         keyArg' = [keyArg EXCEPT ![t] = operation]
    /\ keyPc' = [keyPc EXCEPT ![t] = "id"]
    /\ UNCHANGED <<keyCfg, keyCounter, keyId, keys>>

\* if key_range > 0: key_id = random.randint(0, key_range - 1)
\* else: key_id = self._key_counter
KeyChoose(t) ==
    /\ UNCHANGED exceptKey
    /\ keyPc[t] = "id"
    /\ IF keyCfg.keyRange > 0
       THEN /\ \E key_id \in 0..(keyCfg.keyRange - 1) :
                 keyId' = [keyId EXCEPT ![t] = key_id]
            /\ keyPc' = [keyPc EXCEPT ![t] = "format"]
       ELSE /\ keyId' = [keyId EXCEPT ![t] = keyCounter]
            /\ keyPc' = [keyPc EXCEPT ![t] = "increment"]
    /\ UNCHANGED <<keyCfg, keyCounter, keyLock, keyArg, keys>>

\* self._key_counter += 1
KeyIncrement(t) ==
    /\ UNCHANGED exceptKey
    /\ keyPc[t] = "increment"
    /\ keyCounter' = keyCounter + 1
    /\ keyPc' = [keyPc EXCEPT ![t] = "format"]
    /\ UNCHANGED <<keyCfg, keyLock, keyArg, keyId, keys>>

\* the key is formatted and returned, which leaves the with block
KeyReturn(t) ==
    /\ UNCHANGED exceptKey
    /\ keyPc[t] = "format"
    /\ keys' = Append(keys,
                      [thread |-> t, operation |-> keyArg[t], id |-> keyId[t],
                       key |-> FormatKey(keyCfg.keyPrefix, keyArg[t],
                                         keyId[t])])
    /\ keyLock' = IF keyLock = t THEN 0 ELSE keyLock
    /\ keyPc' = [keyPc EXCEPT ![t] = "idle"]
    /\ UNCHANGED <<keyCfg, keyCounter, keyArg, keyId>>

KeyStep ==
    \E t \in KeyThreads :
        KeyEnter(t) \/ KeyChoose(t) \/ KeyIncrement(t) \/ KeyReturn(t)

KeyConfigs == [keyRange : -1..MaxKeyRange, keyPrefix : {"rw_test", "tx_test"}]

KeyInit ==
    /\ RunnerInit([clients |-> 1, threads_per_client |-> 1, duration |-> None,
                   quiet |-> FALSE, target |-> TRUE])
    /\ WorkloadIdle
    /\ RateIdle
    /\ PubSubIdle
    /\ ChooseIdle
    /\ MetricsIdle
    /\ StatsIdle
    /\ FacadeIdle
    /\ CacheIdle
    /\ CollectorIdle
    /\ FactoryIdle
    /\ ManagerIdle
    /\ RunKeyIdle
    /\ keyCfg \in KeyConfigs
    /\ keyCounter = 0
    /\ keyLock = 0
    /\ keyPc = [t \in KeyThreads |-> "idle"]
    /\ keyArg = [t \in KeyThreads |-> "none"]
    /\ keyId = [t \in KeyThreads |-> 0]
    /\ keys = << >>

KeySpec == KeyInit /\ [][KeyStep]_vars

\* ------------------------------------- workloads.py: the global value pool
\* The pool is represented by the number of its entries and the set of their
\* sizes; the characters of an entry are not modelled.
MaxValueSize == 3
MaxCacheWorkers == 2
MaxPopulated == 2

\* cache_size = 1000
CacheSize == 1000

\* threading.get_ident() of the calling thread, and the last two digits of
\* the timestamp in hundredths of a second
ThreadIdents == {1, 999, 70000}
TimestampSuffixes == {0, 1, 99}

\* the options valueSize (None: absent), valueSizeMin and valueSizeMax
CacheConfigs ==
    [valueSize : {None} \cup 0..MaxValueSize,
     valueSizeMin : 1..MaxValueSize,
     valueSizeMax : 1..MaxValueSize]

\* the sizes an entry generated for the options can have:
\* k = value_size, or random.randint(value_size_min, value_size_max)
EntrySizes(config) ==
    IF config.valueSize # None THEN {config.valueSize}
    ELSE config.valueSizeMin..config.valueSizeMax

\* faulty variant: every call generates entries
AlreadyInitializedNever(cache) == FALSE

\* if _VALUE_CACHE: the list is not empty
AlreadyInitialized(cache) == cache.len # 0

\* initialize_value_cache(config): the pools it can leave, and whether it
\* appended entries.  random.randint raises ValueError on an empty range,
\* before the first entry is appended.
Populates(cache, config) ==
    ~AlreadyInitialized(cache) /\ EntrySizes(config) # {}

InitializeRaises(cache, config) ==
    ~AlreadyInitialized(cache) /\ EntrySizes(config) = {}

InitializedCaches(cache, config) ==
    IF Populates(cache, config)
    THEN {[len |-> cache.len + CacheSize, sizes |-> cache.sizes \cup S] :
             S \in SUBSET EntrySizes(config) \ {{}}}
    ELSE {cache}

CountPopulated(n) == IF n < MaxPopulated THEN n + 1 ELSE MaxPopulated

\* start(), line 223: initialize_value_cache(self.config.test.workload);
\* an exception leaves start() before any thread is created
CacheStart ==
    /\ UNCHANGED exceptCache
    /\ cachePc = "created"
    /\ valueCache' \in InitializedCaches(valueCache, cacheCfg)
    /\ cachePopulated' = IF Populates(valueCache, cacheCfg)
                         THEN CountPopulated(cachePopulated)
                         ELSE cachePopulated
    /\ cachePc' = IF InitializeRaises(valueCache, cacheCfg)
                  THEN "failed" ELSE "initialized"
    /\ UNCHANGED <<cacheCfg, cacheWorkers, cacheIndex>>

\* a later call of initialize_value_cache in the same process, with any
\* options (start() is its only caller: a later run in the process)
CacheInitializeAgain ==
    /\ UNCHANGED exceptCache
    /\ cachePc \in {"initialized", "failed"}
    /\ cachePopulated < MaxPopulated
    /\ \E config \in CacheConfigs :
         /\ valueCache' \in InitializedCaches(valueCache, config)
         /\ cachePopulated' = IF Populates(valueCache, config)
                              THEN CountPopulated(cachePopulated)
                              ELSE cachePopulated
    /\ UNCHANGED <<cacheCfg, cachePc, cacheWorkers, cacheIndex>>

\* start(), lines 234-244: a worker thread is created and started
CacheSpawn ==
    /\ UNCHANGED exceptCache
    /\ cachePc = "initialized"
    /\ cacheWorkers < MaxCacheWorkers
    /\ cacheWorkers' = cacheWorkers + 1
    /\ UNCHANGED <<valueCache, cacheCfg, cachePc, cachePopulated, cacheIndex>>

\* _generate_value in a worker: index = (thread_id + timestamp_suffix)
\* % len(_VALUE_CACHE); the modulo raises ZeroDivisionError on an empty pool
ValueIndex(thread_id, timestamp_suffix, cache) ==
    IF cache.len = 0 THEN [raised |-> TRUE, index |-> None]
    ELSE [raised |-> FALSE,
          index |-> (thread_id + timestamp_suffix) % cache.len]

CacheGenerate ==
    /\ UNCHANGED exceptCache
    /\ cacheWorkers > 0
    /\ \E thread_id \in ThreadIdents, timestamp_suffix \in TimestampSuffixes :
         cacheIndex' = ValueIndex(thread_id, timestamp_suffix, valueCache)
    /\ UNCHANGED <<valueCache, cacheCfg, cachePc, cachePopulated,
                   cacheWorkers>>

CacheStep ==
    CacheStart \/ CacheInitializeAgain \/ CacheSpawn \/ CacheGenerate

CacheInit ==
    /\ RunnerInit([clients |-> 1, threads_per_client |-> 1, duration |-> None,
                   quiet |-> FALSE, target |-> TRUE])
    /\ WorkloadIdle
    /\ RateIdle
    /\ PubSubIdle
    /\ ChooseIdle
    /\ MetricsIdle
    /\ StatsIdle
    /\ FacadeIdle
    /\ KeyIdle
    /\ CollectorIdle
    /\ FactoryIdle
    /\ ManagerIdle
    /\ RunKeyIdle
    /\ valueCache = [len |-> 0, sizes |-> {}]
    /\ cacheCfg \in CacheConfigs
    /\ cachePc = "created"
    /\ cachePopulated = 0
    /\ cacheWorkers = 0
    /\ cacheIndex = [raised |-> FALSE, index |-> None]

CacheSpec == CacheInit /\ [][CacheStep]_vars

\* ----------------------------- metrics.py: the entries of the aggregator
MaxRecords == 2
MaxTime == 2

\* self._metrics[operation] on a defaultdict(OperationMetrics): a missing key
\* is inserted with a new OperationMetrics before the value is returned
DefaultGet(entries, operation) ==
    IF operation \in DOMAIN entries THEN entries
    ELSE [o \in DOMAIN entries \cup {operation} |->
            IF o = operation THEN NewOperationMetrics ELSE entries[o]]

RECURSIVE TotalCount(_, _)
TotalCount(entries, S) ==
    IF S = {} THEN 0
    ELSE LET o == CHOOSE x \in S : TRUE
         IN  entries[o].total_count + TotalCount(entries, S \ {o})

\* record_operation(operation, duration, success, error_type)
ColRecordOperation ==
    /\ UNCHANGED exceptCollector
    /\ TotalCount(colEntries, DOMAIN colEntries) < MaxRecords
    /\ \E c \in MetricCalls :
         /\ colEntries' =
              [DefaultGet(colEntries, c.operation) EXCEPT ![c.operation] =
                 AddStatus(AddDuration(AddCount(@), c.duration),
                           c.success, c.error_type)]
         /\ colRecorded' = colRecorded \cup {c.operation}
    /\ colCall' = "record_operation"
    /\ UNCHANGED colLastReset

\* get_operation_stats(operation): metrics = self._metrics[operation], then
\* the statistics are computed from the value
ColGetOperationStats ==
    /\ UNCHANGED exceptCollector
    /\ \E operation \in MetricOps :
         colEntries' = DefaultGet(colEntries, operation)
    /\ colCall' = "get_operation_stats"
    /\ UNCHANGED <<colRecorded, colLastReset>>

\* get_overall_stats(): sums over self._metrics.values()
ColGetOverallStats ==
    /\ UNCHANGED exceptCollector
    /\ colCall' = "get_overall_stats"
    /\ UNCHANGED <<colEntries, colRecorded, colLastReset>>

RECURSIVE GetEach(_, _)
GetEach(entries, S) ==
    IF S = {} THEN entries
    ELSE LET o == CHOOSE x \in S : TRUE
         IN  GetEach(DefaultGet(entries, o), S \ {o})

\* get_detailed_stats(): get_overall_stats(), then get_operation_stats(o) for
\* every key o of self._metrics
ColGetDetailedStats ==
    /\ UNCHANGED exceptCollector
    /\ colEntries' = GetEach(colEntries, DOMAIN colEntries)
    /\ colCall' = "get_detailed_stats"
    /\ UNCHANGED <<colRecorded, colLastReset>>

\* reset_interval_metrics(): self._last_reset_time = time.time()
ColResetIntervalMetrics ==
    /\ UNCHANGED exceptCollector
    /\ \E now \in colLastReset..MaxTime : colLastReset' = now
    /\ colCall' = "reset_interval_metrics"
    /\ UNCHANGED <<colEntries, colRecorded>>

CollectorStep ==
    \/ ColRecordOperation \/ ColGetOperationStats \/ ColGetOverallStats
    \/ ColGetDetailedStats \/ ColResetIntervalMetrics

CollectorInit ==
    /\ RunnerInit([clients |-> 1, threads_per_client |-> 1, duration |-> None,
                   quiet |-> FALSE, target |-> TRUE])
    /\ WorkloadIdle
    /\ RateIdle
    /\ PubSubIdle
    /\ ChooseIdle
    /\ MetricsIdle
    /\ StatsIdle
    /\ FacadeIdle
    /\ KeyIdle
    /\ CacheIdle
    /\ FactoryIdle
    /\ ManagerIdle
    /\ RunKeyIdle
    /\ colEntries = << >>
    /\ colRecorded = {}
    /\ colLastReset = 0
    /\ colCall = "created"

CollectorSpec == CollectorInit /\ [][CollectorStep]_vars

\* -------------------------------------------------------------- WorkloadFactory
\* create_workload (workloads.py 654-679) for one configuration, then the
\* first operation of the strategy it returned.

FactoryTypes == WorkloadTypes \cup {"transaction_heavy"}
FactoryOperations == {"MULTI", "PUBLISH", "LPUSH", "SET"}

\* the if / elif chain of create_workload, in its order
CreateWorkload(workload_type, use_pipeline, operations) ==
    IF workload_type = "transaction_heavy"
       \/ (use_pipeline /\ "MULTI" \in operations)
    THEN "Transaction"
    ELSE IF workload_type = "high_throughput" \/ use_pipeline
    THEN "Pipeline"
    ELSE IF workload_type = "pubsub_heavy"
            \/ operations \cap {"PUBLISH", "SUBSCRIBE"} # {}
    THEN "PubSub"
    ELSE IF workload_type = "list_operations"
            \/ operations \cap {"LPUSH", "LRANGE", "LPOP", "RPUSH", "RPOP"} # {}
    THEN "List"
    ELSE "Basic"

\* the strategy that the workload type names, for the types that name one
NamedStrategy ==
    [transaction_heavy |-> "Transaction", high_throughput |-> "Pipeline",
     pubsub_heavy |-> "PubSub", list_operations |-> "List"]

\* what _choose_operation can return: an entry of the configured list, or
\* a default of the workload type when no list is configured
FactoryCandidates(c) ==
    IF c.operations = {} THEN DefaultOperations(c.type) ELSE c.operations

\* execute_operation for the chosen operation, the store answering (ok) or
\* failing:
\*   Basic, List, PubSub: the else branch ("unknown operation") returns 0;
\*     PUBLISH returns 0 when publish raised; otherwise 1 on success
\*   Pipeline, Transaction: an operation without a branch is appended to
\*     operations but not queued on the pipe; the call returns the length of
\*     operations (here a batch of one)
ExecuteOutcome(strategy, operation, ok) ==
    IF strategy \in BatchStrategies
    THEN [ok |-> ok, issued |-> operation \in Handled(strategy),
          unknown |-> FALSE, result |-> BatchResult(strategy, 1, ok)]
    ELSE IF operation \notin Handled(strategy)
    THEN [ok |-> ok, issued |-> FALSE, unknown |-> TRUE, result |-> 0]
    ELSE IF operation = "SUBSCRIBE"
    THEN [ok |-> ok, issued |-> TRUE, unknown |-> FALSE, result |-> 1]
    ELSE IF operation = "PUBLISH"
    THEN LET error == IF ok THEN "none" ELSE "ConnectionError"
         IN  [ok |-> ok, issued |-> TRUE, unknown |-> FALSE,
              result |-> IF PublishRaised(error) # "none" THEN 0 ELSE 1]
    ELSE [ok |-> ok, issued |-> TRUE, unknown |-> FALSE,
          result |-> IF ok THEN 1 ELSE 0]

\* WorkloadFactory.create_workload(config, client)
FactoryCreate ==
    /\ UNCHANGED exceptFactory
    /\ factoryPc = "configured"
    /\ factoryStrategy' = CreateWorkload(factoryCfg.type,
                                         factoryCfg.usePipeline,
                                         factoryCfg.operations)
    /\ factoryPc' = "created"
    /\ UNCHANGED <<factoryCfg, factoryOperation, factoryOutcome>>

\* operation = self._choose_operation()
FactoryChoose ==
    /\ UNCHANGED exceptFactory
    /\ factoryPc = "created"
    /\ factoryOperation' \in FactoryCandidates(factoryCfg)
    /\ factoryPc' = "chosen"
    /\ UNCHANGED <<factoryCfg, factoryStrategy, factoryOutcome>>

\* the rest of execute_operation
FactoryExecute ==
    /\ UNCHANGED exceptFactory
    /\ factoryPc = "chosen"
    /\ \E ok \in BOOLEAN :
         factoryOutcome' = ExecuteOutcome(factoryStrategy, factoryOperation, ok)
    /\ factoryPc' = "executed"
    /\ UNCHANGED <<factoryCfg, factoryStrategy, factoryOperation>>

FactoryStep == FactoryCreate \/ FactoryChoose \/ FactoryExecute

FactoryConfigs ==
    [type : FactoryTypes, usePipeline : BOOLEAN,
     operations : SUBSET FactoryOperations]

FactoryInit ==
    /\ RunnerInit([clients |-> 1, threads_per_client |-> 1, duration |-> None,
                   quiet |-> FALSE, target |-> TRUE])
    /\ WorkloadIdle
    /\ RateIdle
    /\ PubSubIdle
    /\ ChooseIdle
    /\ MetricsIdle
    /\ StatsIdle
    /\ FacadeIdle
    /\ KeyIdle
    /\ CacheIdle
    /\ CollectorIdle
    /\ ManagerIdle
    /\ RunKeyIdle
    /\ factoryCfg \in FactoryConfigs
    /\ factoryPc = "configured"
    /\ factoryStrategy = "none"
    /\ factoryOperation = "none"
    /\ factoryOutcome = NoOutcome

FactorySpec == FactoryInit /\ [][FactoryStep]_vars

\* ----------------------------------------------------------- RedisClientManager
\* __init__ / _initialize_clients and concurrent get_client calls
\* (redis_client_manager.py 20-65).

MaxManaged == 2
MaxGetCalls == 3

\* for i in range(num_clients): the instances whose constructor returned,
\* in the order of creation
RECURSIVE CreatedClients(_, _)
CreatedClients(created, i) ==
    IF i > Len(created) THEN << >>
    ELSE (IF created[i] THEN << i >> ELSE << >>)
         \o CreatedClients(created, i + 1)

\* RedisClientManager(config, num_clients): the loop of _initialize_clients,
\* then "if not self.clients: raise RuntimeError"
ManagerConstruct ==
    /\ UNCHANGED exceptManager
    /\ managerState = "new"
    /\ clients' = CreatedClients(managerCfg.created, 1)
    /\ managerState' = IF clients' = << >> THEN "raised" ELSE "ready"
    /\ UNCHANGED <<managerCfg, clientCounter, managerLock, managerPc,
                   managerLocal, managerLog>>

ManagerCanAcquireUnlocked == TRUE

\* with self._lock: the lock is free
ManagerCanAcquire == managerLock = None

\* the calls made so far, returned or not
ManagerCalls ==
    Len(managerLog)
        + Cardinality({t \in ManagerThreads : managerPc[t] # "idle"})

\* a thread calls get_client() and enters the with block
ManagerEnter(t) ==
    /\ UNCHANGED exceptManager
    /\ managerState = "ready"
    /\ managerPc[t] = "idle"
    /\ ManagerCalls < MaxGetCalls
    /\ ManagerCanAcquire
    /\ managerLock' = t
    /\ managerPc' = [managerPc EXCEPT ![t] = "select"]
    /\ UNCHANGED <<managerCfg, managerState, clients, clientCounter,
                   managerLocal, managerLog>>

\* client = self.clients[self._client_counter % len(self.clients)]
ManagerSelect(t) ==
    /\ UNCHANGED exceptManager
    /\ managerPc[t] = "select"
    /\ managerLocal' =
         [managerLocal EXCEPT ![t] =
            [counter |-> clientCounter,
             client |-> clients[(clientCounter % Len(clients)) + 1]]]
    /\ managerPc' = [managerPc EXCEPT ![t] = "increment"]
    /\ UNCHANGED <<managerCfg, managerState, clients, clientCounter,
                   managerLock, managerLog>>

\* self._client_counter += 1
ManagerIncrement(t) ==
    /\ UNCHANGED exceptManager
    /\ managerPc[t] = "increment"
    /\ clientCounter' = clientCounter + 1
    /\ managerPc' = [managerPc EXCEPT ![t] = "release"]
    /\ UNCHANGED <<managerCfg, managerState, clients, managerLock,
                   managerLocal, managerLog>>

\* return client: the with block is left and the lock released
ManagerReturn(t) ==
    /\ UNCHANGED exceptManager
    /\ managerPc[t] = "release"
    /\ managerLock' = IF managerLock = t THEN None ELSE managerLock
    /\ managerLog' = Append(managerLog, managerLocal[t])
    /\ managerPc' = [managerPc EXCEPT ![t] = "idle"]
    /\ UNCHANGED <<managerCfg, managerState, clients, clientCounter,
                   managerLocal>>

ManagerStep ==
    \/ ManagerConstruct
    \/ \E t \in ManagerThreads :
         \/ ManagerEnter(t)
         \/ ManagerSelect(t)
         \/ ManagerIncrement(t)
         \/ ManagerReturn(t)

ManagerConfigs ==
    UNION {[num_clients : {n}, created : [1..n -> BOOLEAN]] :
              n \in 0..MaxManaged}

ManagerInit ==
    /\ RunnerInit([clients |-> 1, threads_per_client |-> 1, duration |-> None,
                   quiet |-> FALSE, target |-> TRUE])
    /\ WorkloadIdle
    /\ RateIdle
    /\ PubSubIdle
    /\ ChooseIdle
    /\ MetricsIdle
    /\ StatsIdle
    /\ FacadeIdle
    /\ KeyIdle
    /\ CacheIdle
    /\ CollectorIdle
    /\ FactoryIdle
    /\ RunKeyIdle
    /\ managerCfg \in ManagerConfigs
    /\ managerState = "new"
    /\ clients = << >>
    /\ clientCounter = 0
    /\ managerLock = None
    /\ managerPc = [t \in ManagerThreads |-> "idle"]
    /\ managerLocal = [t \in ManagerThreads |-> NoSelection]
    /\ managerLog = << >>

ManagerSpec == ManagerInit /\ [][ManagerStep]_vars

\* ------------------------------------------------- _generate_key across workers
\* Every worker thread creates its own workload (test_runner.py 70-76), so
\* every worker has its own _key_counter, starting at 0, and its own
\* _key_lock (workloads.py 61-62); the configuration is the same for all.

MaxRunKeys == 3

\* one call self._generate_key(operation) by a worker on its own instance;
\* no other thread calls that instance, the lock is always free
WorkerGenerateKey(w) ==
    /\ UNCHANGED exceptRunKey
    /\ Len(runKeys) < MaxRunKeys
    /\ \E operation \in KeyOperations :
         \E key_id \in IF runKeyCfg.keyRange > 0
                       THEN 0..(runKeyCfg.keyRange - 1)
                       ELSE {runKeyCounter[w]} :
            runKeys' = Append(runKeys,
                [worker |-> w, operation |-> operation, id |-> key_id,
                 key |-> FormatKey(runKeyCfg.keyPrefix, operation, key_id)])
    /\ runKeyCounter' =
         IF runKeyCfg.keyRange > 0
         THEN runKeyCounter
         ELSE [runKeyCounter EXCEPT ![w] = @ + 1]
    /\ UNCHANGED runKeyCfg

RunKeyStep == \E w \in KeyWorkers : WorkerGenerateKey(w)

RunKeyConfigs ==
    [keyRange : 0..MaxKeyRange, keyPrefix : {"rw_test", "tx_test"}]

RunKeyInit ==
    /\ RunnerInit([clients |-> 1, threads_per_client |-> 1, duration |-> None,
                   quiet |-> FALSE, target |-> TRUE])
    /\ WorkloadIdle
    /\ RateIdle
    /\ PubSubIdle
    /\ ChooseIdle
    /\ MetricsIdle
    /\ StatsIdle
    /\ FacadeIdle
    /\ KeyIdle
    /\ CacheIdle
    /\ CollectorIdle
    /\ FactoryIdle
    /\ ManagerIdle
    /\ runKeyCfg \in RunKeyConfigs
    /\ runKeyCounter = [w \in KeyWorkers |-> 0]
    /\ runKeys = << >>

RunKeySpec == RunKeyInit /\ [][RunKeyStep]_vars

\* ---------------------------------------------------------------- claims
StopPcs == {"stop_check", "stop_set", "stop_join", "stop_close", "stop_summary"}
PastGuard == {"stop_set", "stop_join", "stop_close", "stop_summary"}
Returned == Base.pc = "returned"
LeftWaitLoop == Base.pc \in StopPcs \cup {"returned"}
Spawned == Range(workerThreads)

\* C1: when start() has returned, _output_final_summary has been executed
\* exactly once, whatever ended the run.
C1_SummaryExactlyOnce == Returned => summaryCount = 1

\* C2: when start() has returned, close() has been called on every client
\* handle created during the run.
C2_AllHandlesClosed == Returned => Range(redisClients) \subseteq closed

\* C3: a worker sets the stop flag only when the failed count has reached
\* clients x threads_per_client; while a worker has not failed the flag is set
\* only by stop(); and once every worker has failed the flag gets set and the
\* wait loop of start() is left.
C3_WorkerSetsOnlyWhenAllFailed ==
    (~stopEvent /\ stopEvent' /\ wpc' # wpc) => failedThreads = TotalThreads
C3_SetByStopOtherwise ==
    (stopEvent /\ failedThreads < TotalThreads)
        => (signals > 0 \/ Base.pc \in (PastGuard \ {"stop_set"}) \cup {"returned"})
C3_FailFast ==
    /\ [][C3_WorkerSetsOnlyWhenAllFailed]_vars
    /\ []C3_SetByStopOtherwise
    /\ ((failedThreads = TotalThreads) ~> (stopEvent /\ LeftWaitLoop))
C3_Witness ==
    /\ TotalThreads >= 2 /\ failedThreads = TotalThreads /\ signals = 0
    /\ stopEvent /\ Returned

\* C4: with an integer duration D >= 0 and no signal, start() does not leave its
\* wait loop before D seconds have elapsed unless all workers failed, and
\* start() eventually returns.
C4_NotEarly ==
    (cfg.duration # None /\ LeftWaitLoop /\ ~raised /\ signals = 0
        /\ failedThreads < TotalThreads) => elapsed >= cfg.duration
C4_DurationEnds ==
    /\ []C4_NotEarly
    /\ (cfg.duration # None => <>(Returned \/ signals > 0))

\* C5: a stop() that is past its "already stopping" test never blocks, attempts
\* to join every worker thread and to close every handle whatever the outcome
\* of each join and close, and returns only through the final-summary step.
InStop(f) == f.pc \in PastGuard
C5_Progress ==
    /\ InStop(Top) => ENABLED MainStep
    /\ Top.pc \in {"stop_close", "stop_summary"} => Spawned \subseteq joinLog
    /\ Top.pc = "stop_summary" => Range(redisClients) \subseteq closed
C5_ExitThroughSummary ==
    (InStop(Top) /\ frames' # frames
        /\ (Len(frames') < Len(frames) \/ Base'.pc = "returned"))
    => (Top.pc = "stop_summary" /\ summaryCount' = summaryCount + 1)
C5_StopCompletes == []C5_Progress /\ [][C5_ExitThroughSummary]_vars
C5_Witness ==
    /\ summaryCount = 1 /\ Returned
    /\ \E w \in Spawned : wpc[w] \in {"hung", "exec"}

\* C6: once the stop flag is set a worker starts no unit of work after its next
\* loop test: a unit is started only by a loop test that finds the flag unset,
\* with the flag set the loop test leads to the cleanup, a unit is followed by
\* at most one pause, the cleanup ends the thread, and every worker whose store
\* operations return terminates.
C6_Step(w) ==
    /\ (wpc'[w] = "exec" /\ wpc[w] # "exec") => (wpc[w] = "loop" /\ ~stopEvent)
    /\ (wpc[w] = "loop" /\ stopEvent /\ wpc'[w] # "loop") => wpc'[w] = "cleanup"
    /\ (wpc[w] = "exec" /\ wpc'[w] # "exec")
          => wpc'[w] \in {"loop", "pause", "backoff", "hung"}
    /\ (wpc[w] \in {"pause", "backoff"} /\ wpc'[w] # wpc[w]) => wpc'[w] = "loop"
    /\ (wpc[w] = "cleanup" /\ wpc'[w] # "cleanup") => wpc'[w] = "done"
    /\ (wpc'[w] = "done" /\ wpc[w] # "done") => wpc[w] \in {"cleanup", "failed"}
AllCreationsFailed == raised /\ Len(redisClients) = 0
C9_NoHandles ==
    AllCreationsFailed =>
        /\ workerThreads = << >> /\ Spawned = {} /\ ~statsStarted
        /\ \A w \in Workers : wpc[w] = "idle"
        /\ recorded = 0
        /\ ~waited
        /\ LeftWaitLoop
        /\ ~Returned => ENABLED MainStep
        /\ Returned => summaryCount >= 1
C9_Witness == AllCreationsFailed /\ Returned /\ summaryCount = 1

\* C10: an exception raised by execute_operation() leaves the worker in its
\* loop (it backs off, then tests the loop condition again and, the flag being
\* unset, starts another unit), and the failed count changes only when a
\* workload construction fails.
C10_Step(w) ==
    /\ (wpc[w] = "exec" /\ wpc'[w] # "exec")
          => (wpc'[w] \in {"loop", "pause", "backoff", "hung"}
              /\ failedThreads' = failedThreads)
    /\ (wpc[w] = "backoff" /\ wpc'[w] # "backoff")
          => (wpc'[w] = "loop" /\ failedThreads' = failedThreads)
    /\ (wpc[w] = "loop" /\ ~stopEvent /\ wpc'[w] # "loop") => wpc'[w] = "exec"
C10_FailedOnlyAtCreate ==
    failedThreads' # failedThreads =>
        \E w \in Workers : wpc[w] = "create" /\ wpc'[w] = "failed"
C10_OperationErrorNotFatal ==
    [][(\A w \in Workers : C10_Step(w)) /\ C10_FailedOnlyAtCreate]_vars
C10_Witness ==
    \E w \in Spawned : wpc[w] = "backoff" /\ ~stopEvent /\ failedThreads = 0

\* C12: a worker whose workload construction raises adds exactly one to the
\* failed-thread count (under the thread lock: one atomic step), goes
\* nowhere but to its exit (no second construction, no execute_operation),
\* and the count changes in no other way; in every state
\* 0 <= failed_threads <= started_threads <= clients x threads_per_client
\* and no more workers are in their failure handler than were counted.
C12_Step(w) ==
    /\ (wpc[w] = "create" /\ wpc'[w] = "failed")
          => failedThreads' = failedThreads + 1
    /\ wpc[w] = "failed" => wpc'[w] \in {"failed", "done"}
    /\ wpc'[w] = "failed" => wpc[w] \in {"create", "failed"}
C12_CountedOnce ==
    failedThreads' # failedThreads =>
        /\ failedThreads' = failedThreads + 1
        /\ Cardinality({w \in Workers :
                           wpc[w] = "create" /\ wpc'[w] = "failed"}) = 1
C12_Counts ==
    /\ 0 <= failedThreads
    /\ failedThreads <= startedThreads
    /\ startedThreads <= TotalThreads
    /\ Cardinality({w \in Workers : wpc[w] = "failed"}) <= failedThreads
C12_ConstructionFailure ==
    /\ []C12_Counts
    /\ [][(\A w \in Workers : C12_Step(w)) /\ C12_CountedOnce]_vars
C12_Witness ==
    /\ failedThreads = 1
    /\ startedThreads = 2
    /\ \E w, v \in Spawned : wpc[w] = "done" /\ wpc[v] = "exec"

\* C11: after every failed attempt (the store operation or batch of the call
\* raised) the worker sleeps before its next call of execute_operation, for
\* every workload class.
C11_PauseAfterFailure == (wlPc = "call" /\ wlFailed) => wlSlept # "none"

\* C14: BasicWorkload.execute_operation on an operation it handles: returns 1
\* when the store operation succeeded; when it raised, returns 0, the call
\* has added exactly one record, a failure under the client's name of the
\* operation, and no exception leaves execute_operation.
C14_BasicCall ==
    /\ wlType = "Basic"
    /\ wlPc = "returned"
    /\ Len(wlOps) = 1
    /\ wlOps[1] \in Handled("Basic")
C14_BasicReturn ==
    C14_BasicCall =>
        /\ ~wlRaised
        /\ ~wlFailed => wlResult = 1
        /\ wlFailed =>
            /\ wlResult = 0
            /\ wlRecords =
                 << Rec(OperationName(wlOps[1]), wlElapsed, 1, FALSE) >>
C14_Witness == C14_BasicCall /\ wlFailed /\ wlOps[1] = "DEL"

\* C15: a Pipeline or Transaction batch of B >= 1 operations whose execute()
\* returned after D time units has added exactly B records, the k-th a
\* success under the k-th operation with duration D / B; the B durations sum
\* to D; execute_operation returns B.
RECURSIVE DurationSum(_)
DurationSum(records) ==
    IF records = << >> THEN [num |-> 0, den |-> 1]
    ELSE LET r == Head(records)
             t == DurationSum(Tail(records))
         IN  [num |-> r.num * t.den + t.num * r.den, den |-> r.den * t.den]
C15_BatchDone ==
    /\ wlType \in BatchStrategies
    /\ wlPc = "returned"
    /\ Len(wlOps) >= 1
C15_BatchSuccess ==
    (C15_BatchDone /\ ~wlFailed) =>
        /\ Len(wlRecords) = Len(wlOps)
        /\ \A k \in 1..Len(wlOps) :
              wlRecords[k] = Rec(wlOps[k], wlElapsed, Len(wlOps), TRUE)
        /\ DurationSum(wlRecords).num = wlElapsed * DurationSum(wlRecords).den
        /\ wlResult = Len(wlOps)
C15_Witness ==
    /\ C15_BatchDone /\ ~wlFailed
    /\ wlType = "Transaction"
    /\ Len(wlOps) = MaxBatch
    /\ wlElapsed = 1

\* C16: a Pipeline or Transaction batch whose execute() raised has recorded
\* every operation of the batch as a failure under its own name with
\* duration elapsed / B, and the exception leaves execute_operation.
C16_BatchFailure ==
    (C15_BatchDone /\ wlFailed) =>
        /\ wlRecords = [k \in 1..Len(wlOps) |->
                          Rec(wlOps[k], wlElapsed, Len(wlOps), FALSE)]
        /\ wlRaised

\* C13: when every worker has stopped and a target T is configured, the total
\* number of operations executed by the W workers is T x S up to one unit of
\* work per worker.
C13_Done == \A w \in RateWorkers : ratePc[w] \in {"idle", "done"}
C13_TotalNearTarget ==
    (C13_Done /\ ratePc # << >> /\ TargetConfigured) =>
        LET total == RateTotal(MaxRateWorkers)
            goal == rateCfg.target * rateCfg.seconds
            slack == rateCfg.workers * rateCfg.unit
        IN  goal - slack <= total /\ total <= goal + slack

\* C17: at every moment at most one subscriber thread of the workload is
\* alive, and a SUBSCRIBE executed while the subscriber is alive starts
\* nothing and changes nothing of the workload.
C17_AliveSubscribers == {t \in SubscriberIds : IsAlive(t)}
C17_AtMostOne == Cardinality(C17_AliveSubscribers) <= 1
C17_NoOpWhileRunning ==
    (psPc = "ready" /\ psPc' \in {"start", "subscribed"}
        /\ subThread # 0 /\ IsAlive(subThread))
    => /\ psPc' = "subscribed"
       /\ UNCHANGED <<subThread, subState, subPubsub, subClosed, subStop>>
C17_OneSubscriber == []C17_AtMostOne /\ [][C17_NoOpWhileRunning]_vars
C17_Witness ==
    /\ psPc = "subscribed"
    /\ subThread = 2
    /\ subState[1] = "dead"
    /\ subState[2] = "listening"
    /\ subState[3] = "unborn"

\* C18: the value returned by _choose_operation is a key of the weight map
\* whenever a non-empty weight map is configured (with or without an
\* operation list); otherwise an entry of the operation list when one is
\* configured; a default operation of the workload type only when neither is.
C18_Precedence ==
    choosePc = "returned" =>
        IF DOMAIN chooseCfg.operation_weights # {}
        THEN chooseResult \in DOMAIN chooseCfg.operation_weights
        ELSE IF chooseCfg.operations # << >>
        THEN chooseResult \in Range(chooseCfg.operations)
        ELSE chooseResult \in DefaultOperations(chooseCfg.type)

\* C19: after any sequence of record_operation calls, for every operation:
\* total_count = success_count + error_count = the number of calls made for
\* it, total_duration is the sum of their durations, the counts by error type
\* sum to at most error_count, and the latency window holds the durations of
\* the most recent min(total_count, window size) calls in arrival order.
RECURSIVE SumDurations(_)
SumDurations(calls) ==
    IF calls = << >> THEN 0
    ELSE Head(calls).duration + SumDurations(Tail(calls))
RECURSIVE SumErrors(_, _)
SumErrors(errors_by_type, types) ==
    IF types = {} THEN 0
    ELSE LET e == CHOOSE x \in types : TRUE
         IN  errors_by_type[e] + SumErrors(errors_by_type, types \ {e})
CallsFor(operation) ==
    LET IsFor(c) == c.operation = operation IN SelectSeq(mtHistory, IsFor)
Failures(calls) == LET Failed(c) == ~c.success IN SelectSeq(calls, Failed)
C19_Aggregates ==
    mtPc = << >> /\ mtMetrics # << >> =>
    \A o \in MetricOps :
        LET m == mtMetrics[o]
            calls == CallsFor(o)
            n == Len(calls)
            kept == IF n < MaxWindow THEN n ELSE MaxWindow
        IN  /\ m.total_count = n
            /\ m.total_count = m.success_count + m.error_count
            /\ m.error_count = Len(Failures(calls))
            /\ m.total_duration = SumDurations(calls)
            /\ SumErrors(m.errors_by_type, ErrorTypes) <= m.error_count
            /\ m.latencies =
                 [k \in 1..kept |-> calls[n - kept + k].duration]
C19_Witness ==
    /\ mtPc = << >> /\ mtMetrics # << >>
    /\ \E o \in MetricOps :
         /\ mtMetrics[o].total_count > MaxWindow
         /\ mtMetrics[o].latencies[1] # CallsFor(o)[1].duration
         /\ mtMetrics[o].error_count >= 1
         /\ SumErrors(mtMetrics[o].errors_by_type, ErrorTypes)
              < mtMetrics[o].error_count

\* C20: with record_operation called from several threads while a reader
\* calls get_overall_stats / get_operation_stats: once no call is inside its
\* update, the totals equal the number of record calls made (per operation
\* and overall); every snapshot returned has total = successes + failures;
\* a thread exporting telemetry does not hold the aggregator lock.
C20_Quiescent ==
    /\ mtPc # << >>
    /\ \A t \in Recorders : mtPc[t] \in {"idle", "export"}
C20_NoLostUpdate ==
    C20_Quiescent =>
        /\ SumField("total_count", MetricOps) = Len(mtHistory)
        /\ \A o \in MetricOps :
              /\ mtMetrics[o].total_count = Len(CallsFor(o))
              /\ mtMetrics[o].error_count = Len(Failures(CallsFor(o)))
              /\ mtMetrics[o].success_count
                   = Len(CallsFor(o)) - Len(Failures(CallsFor(o)))
C20_SnapshotConsistent ==
    (mtPc # << >> /\ mtSnapshot.done) =>
        mtSnapshot.total = mtSnapshot.success + mtSnapshot.errors
C20_ExportOutsideLock ==
    mtPc # << >> => \A t \in Recorders : mtPc[t] = "export" => mtLock # t
C20_ThreadSafe ==
    C20_NoLostUpdate /\ C20_SnapshotConsistent /\ C20_ExportOutsideLock
C20_Witness ==
    /\ C20_Quiescent
    /\ Len(mtHistory) = MaxCalls
    /\ mtExported >= 1
    /\ mtPc[1] = "export" /\ mtPc[2] = "export"
    /\ mtSnapshot.done /\ mtSnapshot.total >= 1 /\ mtSnapshot.total < MaxCalls
    /\ mtSnapshot.errors >= 1

\* C21: once get_operation_stats has returned for a non-empty window, the
\* median and the p99 it reports are values of the window (order statistics,
\* not interpolated), and for the window 1..100 the median is 50 or 51 and
\* the p99 is 99.
IsSample(f, latencies) == \E x \in Range(latencies) : f.num = x * f.den
C21_OrderStatistics ==
    (statsPc = "done" /\ opLatencies # << >>) =>
        /\ IsSample(opStats.median_latency, opLatencies)
        /\ IsSample(opStats.p99_latency, opLatencies)
        /\ Len(opLatencies) = 100 =>
              /\ opStats.median_latency.num
                     \in {50 * opStats.median_latency.den,
                          51 * opStats.median_latency.den}
              /\ opStats.p99_latency.num = 99 * opStats.p99_latency.den

\* C22: a facade call that has ended has added exactly one record, under the
\* identifier of its method, marked success exactly when the call returned;
\* it returned exactly when the store call did, and otherwise the exception
\* that reached the caller is the one the store call raised.
C22_OneRecord ==
    fcPc # "idle" =>
        /\ Len(fcRecords) = 1
        /\ fcRecords[1].operation = MethodName(fcCall.method)
        /\ fcRecords[1].success <=> fcPc = "returned"
        /\ fcPc = "returned" <=> fcCall.error = "none"
        /\ fcRaised = fcCall.error

\* C23: whenever a weight map is configured, the draw made by a call of
\* _choose_operation that returned gives every operation the probability
\* weight / sum(weights) of the map, which is what its frequency over many
\* calls converges to (the cross-multiplied form avoids the division).
WeightOf(f, o) == IF o \in DOMAIN f THEN f[o] ELSE 0
C23_Proportions ==
    (choosePc = "returned" /\ DOMAIN chooseCfg.operation_weights # {}) =>
        LET weights == chooseCfg.operation_weights
            law == ChooseLaw(chooseCfg)
        IN  \A o \in DOMAIN weights \cup DOMAIN law :
                WeightOf(law, o) * Total(weights)
                    = WeightOf(weights, o) * Total(law)

\* C24: a pacing sleep advances a worker's clock by at most 100 ms (SleepCap
\* ticks); after a sleep the worker is at the loop test, which it leaves only
\* through the test of the stop event, to "done" when it is set; and without
\* a configured target no worker ever sleeps.
C24_SleepCapped ==
    \A w \in RateWorkers :
        rateClock'[w] - rateClock[w] <= SleepCap * rateCfg.target
C24_Recheck ==
    \A w \in RateWorkers :
        /\ rateClock'[w] # rateClock[w] => ratePc'[w] = "loop"
        /\ (ratePc[w] = "limit" /\ ratePc'[w] # "limit") => ratePc'[w] = "loop"
        /\ (ratePc[w] = "loop" /\ ratePc'[w] # "loop") =>
              /\ ratePc'[w] \in {"exec", "done"}
              /\ TargetConfigured =>
                    (ratePc'[w] = "done" <=> RateStopped(rateClock[w]))
        /\ (ratePc'[w] = "limit" /\ ratePc[w] # "limit") => ratePc[w] = "exec"
        /\ (ratePc'[w] = "exec" /\ ratePc[w] # "exec") => ratePc[w] = "loop"
C24_NoTargetNoSleep == ~TargetConfigured => rateClock' = rateClock
C24_Pacing ==
    [][C24_SleepCapped /\ C24_Recheck /\ C24_NoTargetNoSleep]_vars
C24_Witness ==
    /\ rateCfg.target = 1
    /\ rateCfg.workers = 1
    /\ rateCfg.unit = 1
    /\ rateCount[1] = 2
    /\ rateClock[1] = 2 * SleepCap
    /\ ratePc[1] = "loop"

\* C26: cleanup sets the stop signal first, then waits for the subscriber
\* (a wait that always ends), and only then closes the subscription handle;
\* it never raises; and a subscriber that is polling when the stop signal is
\* set leaves its loop at the next return of its poll and terminates.
C26_Order ==
    /\ (psPc' = "joining" /\ psPc # "joining") => (psPc = "ready" /\ subStop')
    /\ (psPc' = "close" /\ psPc # "close") => (psPc = "joining" /\ subStop)
    /\ (psPc' = "finished" /\ psPc # "finished") => psPc = "close"
    /\ (psPc' # psPc /\ subClosed' # subClosed) => (psPc = "close" /\ subStop)
    /\ subStop => subStop'
C26_PollObservesStop ==
    \A t \in SubscriberIds :
        (subStop /\ subState[t] = "listening" /\ subState'[t] # subState[t])
            => subState'[t] = "closing"
C26_Cleanup ==
    /\ [][C26_Order /\ C26_PollObservesStop]_vars
    /\ [](psPc # "raised")
    /\ (psPc = "joining") ~> (psPc = "finished")
    /\ \A t \in SubscriberIds :
         (subStop /\ subState[t] = "polling") ~> (subState[t] = "dead")
C26_Witness ==
    /\ psPc = "finished"
    /\ subThread = 1
    /\ subState[1] = "polling"
    /\ subPubsub = 1
    /\ 1 \in subClosed

\* C25: when execute_operation of a batch strategy has returned, its value
\* and the number of records it added both equal the number of operations
\* queued on the pipe, and the value is 0 only for an empty batch, which
\* is not an error.
C25_QueuedCount ==
    (wlType \in BatchStrategies /\ wlPc = "returned") =>
        /\ wlResult = Len(Queued(wlType, wlOps))
        /\ Len(wlRecords) = Len(Queued(wlType, wlOps))
        /\ wlResult = 0 => (wlOps = << >> /\ ~wlFailed /\ ~wlRaised)

\* C27: whenever an operation list is configured, a call of _choose_operation
\* does not raise, and the operation it returns is an entry of the list,
\* whatever weight map is configured, the empty one included.
C27_Member ==
    chooseCfg.operations # << >> =>
        /\ choosePc # "raised"
        /\ choosePc = "returned" =>
              chooseResult \in Range(chooseCfg.operations)

\* C28: every id produced with keyRange > 0 lies in [0, keyRange); with
\* keyRange = 0 the ids returned by one instance are 0, 1, 2, ... in order of
\* return, so no two keys it returned for the same operation are equal, even
\* when several threads call the instance.
C28_InRange ==
    keyCfg.keyRange > 0 =>
        \A k \in 1..Len(keys) :
            keys[k].id >= 0 /\ keys[k].id < keyCfg.keyRange
C28_Increasing ==
    keyCfg.keyRange = 0 =>
        /\ \A k \in 1..Len(keys) : keys[k].id = k - 1
        /\ \A j, k \in 1..Len(keys) :
              (j # k /\ keys[j].operation = keys[k].operation)
                  => keys[j].key # keys[k].key
C28_KeyIds == C28_InRange /\ C28_Increasing
C28_Witness ==
    /\ keyCfg.keyRange = 0
    /\ Len(keys) = MaxKeys
    /\ keys[1].thread = 1
    /\ keys[2].thread = 2
    /\ keys[1].operation = "SET"
    /\ keys[2].operation = "SET"

\* C29: every key that _generate_key has returned is the configured prefix,
\* one colon and the id, and nothing else.
C29_PrefixColonId ==
    \A k \in 1..Len(keys) :
        keys[k].key = << keyCfg.keyPrefix, ":", keys[k].id >>

\* C30: the value pool is populated at most once, and before any worker is
\* started; once it holds entries no call of initialize_value_cache and no
\* worker changes it; after start() has initialized it, it holds exactly 1000
\* entries whose sizes are the configured fixed size or lie in [min, max];
\* and every index computed by _generate_value is an index of the pool.
C30_PopulatedOnce ==
    /\ cachePopulated <= 1
    /\ cacheWorkers > 0 => (cachePopulated = 1 /\ valueCache.len = CacheSize)
C30_Entries ==
    cachePc = "initialized" =>
        /\ valueCache.len = CacheSize
        /\ valueCache.sizes # {}
        /\ valueCache.sizes \subseteq EntrySizes(cacheCfg)
C30_IndexInBounds ==
    /\ ~cacheIndex.raised
    /\ cacheIndex.index # None => cacheIndex.index \in 0..(valueCache.len - 1)
C30_Unchanged == valueCache.len # 0 => valueCache' = valueCache
C30_ValuePool ==
    /\ [](C30_PopulatedOnce /\ C30_Entries /\ C30_IndexInBounds)
    /\ [][C30_Unchanged]_vars
C30_Witness ==
    /\ cachePc = "initialized"
    /\ cacheCfg.valueSize = None
    /\ valueCache.sizes = 1..MaxValueSize
    /\ cachePopulated = 1
    /\ cacheWorkers = MaxCacheWorkers
    /\ cacheIndex.index = CacheSize - 1

\* C31: the aggregator holds an entry only for operations that have been
\* recorded; a call of get_operation_stats, get_overall_stats or
\* get_detailed_stats leaves the entries unchanged, and a call of
\* reset_interval_metrics changes nothing but the last-reset time.
C31_ReadCalls ==
    {"get_operation_stats", "get_overall_stats", "get_detailed_stats",
     "reset_interval_metrics"}
C31_ReadsChangeNothing ==
    (colCall' \in C31_ReadCalls /\ <<colEntries, colRecorded, colCall>>'
                                      # <<colEntries, colRecorded, colCall>>)
        => /\ colEntries' = colEntries
           /\ colCall' # "reset_interval_metrics" => colLastReset' = colLastReset
C31_LazyEntries ==
    /\ [](DOMAIN colEntries \subseteq colRecorded)
    /\ [][C31_ReadsChangeNothing]_vars

\* C32: the statistics returned for a window of fewer than 20 samples report
\* the largest latency of the window as p95, those for fewer than 100 samples
\* report it as p99, and those for an operation without records are empty.
IsMaximum(f, latencies) ==
    /\ f.den = 1
    /\ f.num \in Range(latencies)
    /\ \A x \in Range(latencies) : x <= f.num
C32_Fallback ==
    statsPc = "done" =>
        /\ Len(opLatencies) = 0 => opStats = << >>
        /\ Len(opLatencies) \in 1..19 =>
              IsMaximum(opStats.p95_latency, opLatencies)
        /\ Len(opLatencies) \in 1..99 =>
              IsMaximum(opStats.p99_latency, opLatencies)
C32_Witness ==
    /\ statsPc = "done"
    /\ Len(opLatencies) = 50
    /\ opLatencies[1] = 50
    /\ opStats.p99_latency = Frac(50, 1)
    /\ opStats.p95_latency # Frac(50, 1)


\* C33: every duration handed to record_operation is >= 0, for single
\* operations and for the members of a batch, also when the wall clock was
\* set back between the two readings of an operation.
C33_NonNegative ==
    \A k \in 1..Len(wlRecords) : wlRecords[k].num >= 0


\* C34: create_workload selects by workload type first: a configuration
\* whose type names a strategy yields that strategy, whatever usePipeline and
\* the operation list are.
C34_TypeFirst ==
    (factoryPc # "idle" /\ factoryStrategy # "none"
     /\ factoryCfg.type \in DOMAIN NamedStrategy)
        => factoryStrategy = NamedStrategy[factoryCfg.type]


\* C38: with no operation list configured, every operation that
\* _choose_operation returns (a default of the workload type) is executed by
\* the strategy created for that type: the command is issued, the "unknown
\* operation" branch is not taken, and the call returns 1 on success.
C38_DefaultsExecuted ==
    (factoryPc = "executed" /\ factoryCfg.operations = {})
        => /\ factoryOutcome.issued
           /\ ~factoryOutcome.unknown
           /\ (factoryOutcome.ok => factoryOutcome.result = 1)


\* the number of returned calls that returned the client
TimesReturned(client) ==
    Cardinality({k \in 1..Len(managerLog) : managerLog[k].client = client})

\* C35 (round-robin): the k-th call that returns (k = 0, 1, 2, ...) read
\* the counter value k and returns clients[k mod n], so no counter value is
\* skipped or used twice.
C35_RoundRobin ==
    \A k \in 1..Len(managerLog) :
        /\ managerLog[k].counter = k - 1
        /\ managerLog[k].client = clients[((k - 1) % Len(clients)) + 1]

\* C35 (balance): after m calls each of the n clients has been returned
\* floor(m/n) or ceil(m/n) times.
C35_Balanced ==
    LET m == Len(managerLog)
        n == Len(clients)
    IN  (managerState = "ready" /\ m > 0)
            => \A i \in 1..n :
                  /\ TimesReturned(clients[i]) >= m \div n
                  /\ TimesReturned(clients[i]) <= (m + n - 1) \div n

\* C35 (construction): a constructor that fails is skipped; the manager
\* raises exactly when no client at all was created, and otherwise holds the
\* clients created, in their order.
C35_Construction ==
    managerState \in {"ready", "raised"}
        => /\ (managerState = "raised")
                <=> (\A i \in 1..managerCfg.num_clients :
                        ~managerCfg.created[i])
           /\ \A i \in 1..managerCfg.num_clients :
                managerCfg.created[i]
                    <=> (\E k \in 1..Len(clients) : clients[k] = i)

\* C35: get_client is round-robin and thread-safe, and construction
\* tolerates individual creation failures.
C35_GetClient == C35_RoundRobin /\ C35_Balanced /\ C35_Construction

\* two clients: three calls have returned and the selection has wrapped
\* around to the first client
C35_Witness ==
    /\ Len(clients) = 2
    /\ Len(managerLog) = 3
    /\ managerLog[3].client = clients[1]


\* C36: a client handle is closed only after every worker bound to it has
\* terminated, so no worker invokes an operation on a closed handle; also
\* when a join times out and when a signal arrives during start().
C36_ClosedAfterWorkers ==
    \A k \in 1..Len(workerThreads) :
        wclient[workerThreads[k]] \in closed => wpc[workerThreads[k]] = "done"

\* C37: once the final summary has run, no record is added to the
\* aggregator.
C37_Step == summaryCount >= 1 => recorded' = recorded
C37_NoRecordAfterSummary == [][C37_Step]_vars


\* C39: with keyRange == 0, across all the workers of one run, no two keys
\* generated for the same operation are equal.
C39_DistinctAcrossWorkers ==
    runKeyCfg.keyRange = 0
        => \A j, k \in 1..Len(runKeys) :
              (j # k /\ runKeys[j].operation = runKeys[k].operation)
                  => runKeys[j].key # runKeys[k].key

====
